---- MODULE Spec2Model ----
(***************************************************************************)
(* XPBot: the XP / levelling engine.                                       *)
(*                                                                         *)
(*   xp_manager.py   level curve, award protocol, role reconciliation      *)
(*   database.py     the users and voice_sessions tables                   *)
(*   cogs/           the admin commands that set XP / level and sync roles *)
(*                                                                         *)
(* Time is the wall clock in whole seconds (datetime.now().timestamp()).   *)
(* Handlers run one after another: an action is one whole handler, with    *)
(* every store write and every role operation it makes.  Where handlers    *)
(* interleave (SpecAsync, SpecSweep) an action is the stretch of a handler *)
(* between two awaits, the only points where the event loop switches.      *)
(***************************************************************************)
EXTENDS Integers, Sequences, FiniteSets, TLC

(***************************************************************************)
(* Bounds of the model.                                                    *)
(***************************************************************************)
\* the clock stops advancing here
MaxTime == 6
\* seconds that may pass inside an award between reading the clock for the
\* cooldown check and the store stamping the write
MaxWriteDelay == 1
\* awards stop once total XP would pass this
MaxXP == 4
\* largest clock reading at which a scenario starts
MaxStart == 40
\* largest level an admin sets; tier lookups run over levels and
\* thresholds up to 3 * MaxLevel
MaxLevel == 4
\* longest tier map given to get_appropriate_reward_role
MaxTiers == 3
\* anchors of the curves explored: level 1..MaxAnchorLevel, xp -1..MaxAnchorXp
MaxAnchorLevel == 4
MaxAnchorXp == 5
\* the XP totals a curve is evaluated at: 0..MaxCurveXp and the edges of the
\* fallback curve
MaxCurveXp == 12
\* levels up to which a round trip through the curve is taken, next to the
\* top of the table
MaxTableLevel == 6
\* largest base_xp of the exponential curves explored
MaxBaseXp == 4
\* largest XP total of the records setweekly is applied to
MaxStoreRowXp == 2
\* most weekly archives written where the resets of the store are explored
MaxArchives == 1
\* award handlers that reach handle_level_up in a run of interleaved handlers
MaxTasks == 2
\* the clock reading the sweep is explored from, the seconds the clock
\* advances by between two of its passes, and how often it advances
SweepEpoch == 120
SweepStep == 30
MaxSweepTicks == 1

VARIABLES
    now,                \* wall clock, seconds
    users,              \* table users: (guild_id, user_id) -> row
    voice_sessions,     \* table voice_sessions: the set of its rows
    weekly_archives,    \* table weekly_archives: its rows, oldest first
    member_roles,       \* discord: user -> set of role ids held
    member_bot,         \* discord: user -> member.bot
    member_voice,       \* discord: user -> voice channel the member is in, 0: none
    guild_roles,        \* discord: role ids that exist in the guild
    guild_members,      \* discord: users guild.get_member finds
    guild_channels,     \* discord: channels guild.get_channel finds
    role_rewards,       \* config role_rewards, in storage order
    exempt_roles,       \* config exempt_roles
    message_whitelist,  \* config channels.message_whitelist
    voice_whitelist,    \* config channels.voice_whitelist
    xp_settings,        \* config xp_settings
    level_formula,      \* config level_formula
    last,               \* history: the last handler run, its inputs and outcome
    hist,               \* history: last award times, consecutive role syncs
    scn_pc,             \* scenario position
    scn_log,            \* scenario: what each step returned / left behind
    fn_in,              \* input of the pure function under test
    fn_out,             \* its result
    tasks               \* handlers suspended at an await: position and locals

vars == <<now, users, voice_sessions, weekly_archives, member_roles, member_bot,
          member_voice, guild_roles, guild_members, guild_channels, role_rewards,
          exempt_roles,
          message_whitelist, voice_whitelist, xp_settings, level_formula, last,
          hist, scn_pc, scn_log, fn_in, fn_out, tasks>>

config_vars == <<role_rewards, exempt_roles, message_whitelist, voice_whitelist,
                 xp_settings, level_formula>>

(***************************************************************************)
(* Identifiers.                                                            *)
(***************************************************************************)
GuildIds == {1}
UserIds == {1}
Keys == GuildIds \X UserIds
\* role ids: 1 and 2 are used as reward roles, 4 as an exempt role
RoleIds == {1, 2, 4}
TextChannels == {1, 2}
VoiceChannels == {11, 12}

\* Python's None for an Optional[int] role id
NoRole == 0

Max(a, b) == IF a >= b THEN a ELSE b

\* int(x / y) for integers x and y > 0: Python truncates toward zero
TruncDiv(x, y) == IF x >= 0 THEN x \div y ELSE -((-x) \div y)

(***************************************************************************)
(* Level curve (xp_manager.py 17-133).                                     *)
(* level_formula is [type, base_xp, mult_num, mult_den, anchors]; the      *)
(* multiplier is the rational mult_num / mult_den; anchors is the list of  *)
(* [level, xp] items in configuration order.                               *)
(***************************************************************************)
\* lines 92-97: keep the anchors with level > 1 and xp >= 0
ValidAnchors(anchors_data) ==
    SelectSeq(anchors_data, LAMBDA a : a.level > 1 /\ a.xp >= 0)

\* line 103: anchors.sort(key=level), a stable sort
RECURSIVE InsertAnchor(_, _)
InsertAnchor(sorted, a) ==
    IF sorted = <<>> THEN <<a>>
    ELSE IF sorted[Len(sorted)].level <= a.level THEN Append(sorted, a)
    ELSE Append(InsertAnchor(SubSeq(sorted, 1, Len(sorted) - 1), a), sorted[Len(sorted)])

\* the anchors left in configuration order
KeepAnchorOrder(s) == s

RECURSIVE SortAnchors(_)
SortAnchors(s) ==
    IF s = <<>> THEN <<>>
    ELSE InsertAnchor(SortAnchors(SubSeq(s, 1, Len(s) - 1)), s[Len(s)])

\* a minimal curve that starts level 2 at 50 XP
FallbackThresholdsLow ==
    (1 :> 0) @@ (2 :> 50) @@ (3 :> 300) @@ (4 :> 700) @@ (5 :> 1500)

\* line 101: the minimal curve used when no anchor is valid
FallbackThresholds ==
    (1 :> 0) @@ (2 :> 100) @@ (3 :> 300) @@ (4 :> 700) @@ (5 :> 1500)

\* lines 110-117: the loop assigns thresholds[l], for 1 < l <= the last anchor
\* level, exactly once: in the iteration of the first sorted anchor whose
\* level is >= l, whose predecessor (the anchor before it, or level 1 with
\* 0 XP) is below l
RECURSIVE SegmentIndex(_, _, _)
SegmentIndex(anchors, i, l) ==
    IF anchors[i].level >= l THEN i ELSE SegmentIndex(anchors, i + 1, l)

\* lines 111-115: xp_at_l = int(prev_xp + t * (xp_target - prev_xp)) with
\* t = (l - prev_level) / span; the value is never negative, so int() is floor
InterpolatedXp(prev_level, prev_xp, lvl, xp_target, l) ==
    LET span == Max(lvl - prev_level, 1)
    IN  (prev_xp * span + (l - prev_level) * (xp_target - prev_xp)) \div span

\* the last step of the interpolation taken as the delta above the last anchor
LastInterpolatedStep(anchors) ==
    LET n == Len(anchors)
        lvl == anchors[n].level
        prev_level == IF n >= 2 THEN anchors[n - 1].level ELSE 1
        prev_xp == IF n >= 2 THEN anchors[n - 1].xp ELSE 0
        span == Max(lvl - prev_level, 1)
        at(l) == (prev_xp * span + (l - prev_level) * (anchors[n].xp - prev_xp)) \div span
    IN  at(lvl) - at(lvl - 1)

\* lines 120-128: the per-level delta used above the last anchor
LastPerLevelDelta(anchors) ==
    LET n == Len(anchors)
    IN  IF n >= 2
        THEN TruncDiv(anchors[n].xp - anchors[n - 1].xp,
                      Max(anchors[n].level - anchors[n - 1].level, 1))
        ELSE TruncDiv(anchors[n].xp, Max(anchors[n].level - 1, 1))

\* lines 105-131: thresholds[l] of the table built from the sorted valid
\* anchors (not empty), for a level l the table holds
RECURSIVE ThresholdAt(_, _)
ThresholdAt(anchors, l) ==
    LET last_anchor_level == anchors[Len(anchors)].level
    IN  IF l = 1 THEN 0
        ELSE IF l <= last_anchor_level
        THEN LET i == SegmentIndex(anchors, 1, l)
             IN  IF i = 1
                 THEN InterpolatedXp(1, 0, anchors[i].level, anchors[i].xp, l)
                 ELSE InterpolatedXp(anchors[i - 1].level, anchors[i - 1].xp,
                                     anchors[i].level, anchors[i].xp, l)
        ELSE ThresholdAt(anchors, last_anchor_level)
               + LastPerLevelDelta(anchors) * (l - last_anchor_level)

\* the highest level of the table: lines 130-131 fill it up to level 100
HighestLevel(anchors) ==
    IF anchors = <<>> THEN 5 ELSE Max(anchors[Len(anchors)].level, 100)

\* lines 80-133: the table _get_xp_anchor_thresholds returns, read at level l
\* (1 <= l <= HighestLevel)
Threshold(anchors, l) ==
    IF anchors = <<>> THEN FallbackThresholds[l] ELSE ThresholdAt(anchors, l)

\* lines 89-103: the anchors the table is built from
SortedAnchors(formula) == SortAnchors(ValidAnchors(formula.anchors))

\* the scan with its comparison turned around
ScanLevelsReversed(anchors, highest, level, current_level, xp) ==
    LET breaks(l) == ~(xp <= Threshold(anchors, l))
    IN  IF level > highest THEN current_level
        ELSE IF \E l \in level..highest : breaks(l)
        THEN LET first == CHOOSE l \in level..highest :
                              breaks(l) /\ \A j \in level..(l - 1) : ~breaks(j)
             IN  IF first = level THEN current_level ELSE first - 1
        ELSE highest

\* lines 26-32: scan the levels from `level` on in ascending order and stop
\* at the first threshold above xp; current_level is then the level before
\* that one (the value held on entry if the first level breaks), the highest
\* level if none breaks
ScanLevels(anchors, highest, level, current_level, xp) ==
    LET breaks(l) == ~(xp >= Threshold(anchors, l))
    IN  IF level > highest THEN current_level
        ELSE IF \E l \in level..highest : breaks(l)
        THEN LET first == CHOOSE l \in level..highest :
                              breaks(l) /\ \A j \in level..(l - 1) : ~breaks(j)
             IN  IF first = level THEN current_level ELSE first - 1
        ELSE highest

\* lines 38-44: 1 + floor(log_multiplier(xp / base_xp)), the largest k with
\* base_xp * multiplier^k <= xp
RECURSIVE ExpSteps(_, _, _, _)
ExpSteps(xp_scaled, acc, num, den) ==
    IF acc * num <= xp_scaled * den /\ num > den
    THEN 1 + ExpSteps(xp_scaled * den, acc * num, num, den)
    ELSE 0

\* lines 24-32
LevelFromAnchors(anchors, xp) ==
    ScanLevels(anchors, HighestLevel(anchors), 1, 1, xp)

\* lines 17-44
calculate_level_for(formula, xp) ==
    IF formula.type = "xp_anchors"
    THEN LevelFromAnchors(SortedAnchors(formula), xp)
    ELSE IF xp < formula.base_xp THEN 1
         ELSE 1 + ExpSteps(xp, formula.base_xp, formula.mult_num, formula.mult_den)

calculate_level(xp) == calculate_level_for(level_formula, xp)

RECURSIVE Pow(_, _)
Pow(b, e) == IF e = 0 THEN 1 ELSE b * Pow(b, e - 1)

\* lines 55-69
XpFromAnchors(anchors, level) ==
    LET highest == HighestLevel(anchors)
    IN  IF level <= 1 THEN 0
        ELSE IF level <= highest THEN Threshold(anchors, level)
        ELSE LET last_delta ==
                     IF highest - 1 >= 1
                     THEN Threshold(anchors, highest) - Threshold(anchors, highest - 1)
                     ELSE 0
             IN  Threshold(anchors, highest) + last_delta * (level - highest)

\* lines 46-78
calculate_xp_for_level_for(formula, level) ==
    IF formula.type = "xp_anchors"
    THEN XpFromAnchors(SortedAnchors(formula), level)
    ELSE IF level <= 1 THEN 0
         ELSE (formula.base_xp * Pow(formula.mult_num, level - 1))
                  \div Pow(formula.mult_den, level - 1)

calculate_xp_for_level(level) == calculate_xp_for_level_for(level_formula, level)

(***************************************************************************)
(* Reward tiers (xp_manager.py 135-174).                                   *)
(* role_rewards is the configuration dict in storage order: a sequence of  *)
(* [key, role] items with distinct keys; a key is the decimal string of    *)
(* the level threshold, held as its sequence of digits.                    *)
(***************************************************************************)
\* int(level_str)
RECURSIVE IntOfStr(_)
IntOfStr(s) ==
    IF s = <<>> THEN 0
    ELSE 10 * IntOfStr(SubSeq(s, 1, Len(s) - 1)) + s[Len(s)]

\* str(level), config_manager.py add_role_reward
RECURSIVE StrOfInt(_)
StrOfInt(n) == IF n < 10 THEN <<n>> ELSE Append(StrOfInt(n \div 10), n % 10)

\* the test without "higher than the best so far"
TierQualifiesAtAll(level, level_threshold, appropriate_level) ==
    level >= level_threshold

\* the test of line 170
TierQualifies(level, level_threshold, appropriate_level) ==
    level >= level_threshold /\ level_threshold > appropriate_level

\* lines 165-174: one pass over role_rewards.items()
RECURSIVE ScanRewards(_, _, _, _, _)
ScanRewards(rewards, i, level, appropriate_level, appropriate_role_id) ==
    IF i > Len(rewards) THEN appropriate_role_id
    ELSE LET level_threshold == IntOfStr(rewards[i].key)
         IN  IF TierQualifies(level, level_threshold, appropriate_level)
             THEN ScanRewards(rewards, i + 1, level, level_threshold, rewards[i].role)
             ELSE ScanRewards(rewards, i + 1, level, appropriate_level, appropriate_role_id)

get_appropriate_reward_role_in(rewards, level) ==
    ScanRewards(rewards, 1, level, 0, NoRole)

get_appropriate_reward_role(level) ==
    get_appropriate_reward_role_in(role_rewards, level)

\* role_rewards.values()
RewardRoleIds == {role_rewards[i].role : i \in DOMAIN role_rewards}

\* lines 149-158
get_user_reward_roles(u) == member_roles[u] \cap RewardRoleIds

\* the exemption test without the bot check
is_user_exempt_roles_only(u) ==
    \E r \in exempt_roles : r \in member_roles[u]

\* lines 135-147
is_user_exempt(u) ==
    member_bot[u] \/ (\E r \in exempt_roles : r \in member_roles[u])

(***************************************************************************)
(* Role reconciliation (xp_manager.py 277-319, 407-443).                   *)
(* A role operation ends "ok" or "failed" (discord.Forbidden or any other   *)
(* exception: both are logged and swallowed); rem_out gives the outcome of *)
(* each removal and add_out that of the add.  The result is the member's   *)
(* role set after the call, the role operations issued, and whether        *)
(* log_level_up was reached.                                               *)
(***************************************************************************)
Outcomes == {"ok", "failed"}

RoleOp(kind, role, outcome) == [kind |-> kind, role |-> role, outcome |-> outcome]

\* a replacement that adds the target only to a member who did not hold it
ReplaceRewardRolesAddIfNew(u, target, rem_out, add_out) ==
    LET current_reward_roles == get_user_reward_roles(u)
        removed == {r \in current_reward_roles : rem_out[r] = "ok"}
        kept == member_roles[u] \ removed
    IN  [roles |-> IF add_out = "ok" /\ target \notin member_roles[u]
                   THEN kept \cup {target} ELSE kept,
         ops   |-> {RoleOp("remove", r, rem_out[r]) : r \in current_reward_roles}
                     \cup {RoleOp("add", target, add_out)}]

\* a replacement that adds the target and removes nothing
ReplaceRewardRolesKeepOld(u, target, rem_out, add_out) ==
    [roles |-> IF add_out = "ok" THEN member_roles[u] \cup {target}
               ELSE member_roles[u],
     ops   |-> {RoleOp("add", target, add_out)}]

\* lines 289-313 and 420-440: remove every held reward role, then add the target
ReplaceRewardRoles(u, target, rem_out, add_out) ==
    LET current_reward_roles == get_user_reward_roles(u)
        removed == {r \in current_reward_roles : rem_out[r] = "ok"}
        kept == member_roles[u] \ removed
    IN  [roles |-> IF add_out = "ok" THEN kept \cup {target} ELSE kept,
         ops   |-> {RoleOp("remove", r, rem_out[r]) : r \in current_reward_roles}
                     \cup {RoleOp("add", target, add_out)}]

\* lines 277-319
handle_level_up(u, old_level, new_level, rem_out, add_out) ==
    LET new_reward_role_id == get_appropriate_reward_role(new_level)
    IN  IF new_reward_role_id # NoRole
        THEN IF new_reward_role_id \notin guild_roles
             THEN [roles |-> member_roles[u], ops |-> {}, logged |-> FALSE]
             ELSE LET r == ReplaceRewardRoles(u, new_reward_role_id, rem_out, add_out)
                  IN  [roles |-> r.roles, ops |-> r.ops, logged |-> TRUE]
        ELSE [roles |-> member_roles[u], ops |-> {}, logged |-> TRUE]

\* lines 407-443; tbl is the users table the call reads
sync_user_roles(tbl, g, u, rem_out, add_out) ==
    IF <<g, u>> \notin DOMAIN tbl
    THEN [roles |-> member_roles[u], ops |-> {}]
    ELSE LET current_level == tbl[<<g, u>>].level
             appropriate_role_id == get_appropriate_reward_role(current_level)
         IN  IF appropriate_role_id # NoRole /\ appropriate_role_id \in guild_roles
             THEN ReplaceRewardRoles(u, appropriate_role_id, rem_out, add_out)
             ELSE [roles |-> member_roles[u], ops |-> {}]

AllOk(ops) == \A o \in ops : o.outcome = "ok"

(***************************************************************************)
(* The users table (database.py 22-33, 100-174).                           *)
(***************************************************************************)
\* lines 105-108: the row INSERT OR IGNORE creates, with the column defaults
NewUser ==
    [permanent_xp |-> 0, weekly_xp |-> 0, level |-> 1,
     last_message_xp_timestamp |-> 0, last_voice_xp_timestamp |-> 0,
     voice_time |-> 0, message_count |-> 0]

\* lines 121-126: the table after get_or_create_user
get_or_create_user(k) ==
    IF k \in DOMAIN users THEN users ELSE (k :> NewUser) @@ users

\* the row get_or_create_user hands to a write
RowBefore(k) == IF k \in DOMAIN users THEN users[k] ELSE NewUser

\* an UPDATE of the voice award that leaves last_voice_xp_timestamp alone
db_award_voice_xp_unstamped(row, xp_amount, at) ==
    [row EXCEPT !.permanent_xp = @ + xp_amount,
                !.weekly_xp = @ + xp_amount]

\* an UPDATE that leaves last_message_xp_timestamp alone
db_award_message_xp_unstamped(row, xp_amount, at) ==
    [row EXCEPT !.permanent_xp = @ + xp_amount,
                !.weekly_xp = @ + xp_amount]

\* an UPDATE that adds the amount to permanent_xp only
db_award_message_xp_total_only(row, xp_amount, at) ==
    [row EXCEPT !.permanent_xp = @ + xp_amount,
                !.last_message_xp_timestamp = at]

\* an UPDATE that stamps both award timestamps
db_award_message_xp_both_stamps(row, xp_amount, at) ==
    [row EXCEPT !.permanent_xp = @ + xp_amount,
                !.weekly_xp = @ + xp_amount,
                !.last_message_xp_timestamp = at,
                !.last_voice_xp_timestamp = at]

\* lines 134-140: the UPDATE of Database.award_message_xp
db_award_message_xp(row, xp_amount, at) ==
    [row EXCEPT !.permanent_xp = @ + xp_amount,
                !.weekly_xp = @ + xp_amount,
                !.last_message_xp_timestamp = at]

\* an UPDATE that overwrites weekly_xp with the amount
db_award_voice_xp_weekly_overwritten(row, xp_amount, at) ==
    [row EXCEPT !.permanent_xp = @ + xp_amount,
                !.weekly_xp = xp_amount,
                !.last_voice_xp_timestamp = at]

\* lines 158-164: the UPDATE of Database.award_voice_xp
db_award_voice_xp(row, xp_amount, at) ==
    [row EXCEPT !.permanent_xp = @ + xp_amount,
                !.weekly_xp = @ + xp_amount,
                !.last_voice_xp_timestamp = at]

\* SQL NULL in an INTEGER column: no integer, told apart from every XP total
Null == -1

\* lines 181-186: UPDATE users SET permanent_xp = ?, weekly_xp = ? with the
\* permanent_xp argument bound as given; None is bound as NULL
set_user_xp_both(row, permanent_xp, weekly_xp) ==
    [row EXCEPT !.permanent_xp = permanent_xp, !.weekly_xp = weekly_xp]

\* a reset that leaves the two award timestamps alone
reset_user_all_keeping_stamps(row) ==
    [row EXCEPT !.permanent_xp = 0, !.weekly_xp = 0, !.level = 1,
                !.voice_time = 0, !.message_count = 0]

\* lines 273-283: the UPDATE of Database.reset_user_all
reset_user_all(row) ==
    [row EXCEPT !.permanent_xp = 0, !.weekly_xp = 0, !.level = 1,
                !.voice_time = 0, !.message_count = 0,
                !.last_message_xp_timestamp = 0,
                !.last_voice_xp_timestamp = 0]

\* lines 392-399: SELECT user_id, weekly_xp ... WHERE guild_id = ? AND
\* weekly_xp > 0 (the rows come in no stated order)
weekly_data(tbl, guild_id) ==
    {[user_id |-> k[2], weekly_xp |-> tbl[k].weekly_xp] :
        k \in {key \in DOMAIN tbl : key[1] = guild_id /\ tbl[key].weekly_xp > 0}}

\* lines 401-411: the archive row, inserted only when weekly_data is not empty
archive_weekly(archives, tbl, guild_id) ==
    IF weekly_data(tbl, guild_id) # {}
    THEN Append(archives, [guild_id |-> guild_id,
                           archive_data |-> weekly_data(tbl, guild_id)])
    ELSE archives

\* an UPDATE without its WHERE clause
zero_weekly_everywhere(tbl, guild_id) ==
    [k \in DOMAIN tbl |->
        [tbl[k] EXCEPT !.weekly_xp = 0, !.voice_time = 0, !.message_count = 0]]

\* lines 413-418: UPDATE users SET weekly_xp = 0, voice_time = 0,
\* message_count = 0 WHERE guild_id = ?
zero_weekly(tbl, guild_id) ==
    [k \in DOMAIN tbl |->
        IF k[1] = guild_id
        THEN [tbl[k] EXCEPT !.weekly_xp = 0, !.voice_time = 0, !.message_count = 0]
        ELSE tbl[k]]

\* a write that inserts the row it does not find
award_xp_call_upsert(tbl, k, kind, xp_amount, at, db_ok) ==
    LET row == IF k \in DOMAIN tbl THEN tbl[k] ELSE NewUser
    IN  IF db_ok
        THEN [success |-> TRUE,
              users |-> (k :> (IF kind = "message"
                               THEN db_award_message_xp(row, xp_amount, at)
                               ELSE db_award_voice_xp(row, xp_amount, at))) @@ tbl]
        ELSE [success |-> FALSE, users |-> tbl]

\* lines 128-150 and 152-174: Database.award_message_xp / award_voice_xp as
\* called on the table: the UPDATE matches the row of k or none, success is
\* rowcount > 0, an exception rolls back and returns False
award_xp_call(tbl, k, kind, xp_amount, at, db_ok) ==
    IF db_ok /\ k \in DOMAIN tbl
    THEN [success |-> TRUE,
          users |-> [tbl EXCEPT ![k] = IF kind = "message"
                                       THEN db_award_message_xp(@, xp_amount, at)
                                       ELSE db_award_voice_xp(@, xp_amount, at)]]
    ELSE [success |-> FALSE, users |-> tbl]

\* lines 492-502: update_voice_tick stamps the user's session rows, if any
update_voice_tick(k, at) ==
    {IF <<row.guild_id, row.user_id>> = k THEN [row EXCEPT !.last_xp_tick = at]
     ELSE row : row \in voice_sessions}

(***************************************************************************)
(* What a handler returned.  NoResult is Python's None.                    *)
(***************************************************************************)
NoResult ==
    [awarded |-> FALSE, xp_awarded |-> 0, old_level |-> 0, new_level |-> 0,
     total_xp |-> 0, weekly_xp |-> 0, leveled_up |-> FALSE]

\* xp_manager.py 205-217 (and 257-269): the result dict
AwardResult(xp_amount, user_data, updated_user) ==
    LET old_level == user_data.level
        new_level == calculate_level(updated_user.permanent_xp)
    IN  [awarded |-> TRUE, xp_awarded |-> xp_amount,
         old_level |-> old_level, new_level |-> new_level,
         total_xp |-> updated_user.permanent_xp,
         weekly_xp |-> updated_user.weekly_xp,
         leveled_up |-> new_level > old_level]

EmptyTable == [k \in {} |-> NewUser]

\* database.py 47-57: the voice_sessions table as created
NoSessions == {}

\* the record of a handler run kept in `last`: the call and the clock
\* reading it started at, what it returned, the level it reconciled roles
\* for (arg), the role operations it issued, whether log_level_up was reached
Ran(op, g, u, ch, arg, ret, reconciled, ops, logged) ==
    [op |-> op, guild |-> g, user |-> u, channel |-> ch, arg |-> arg, at |-> now,
     ret |-> ret, reconciled |-> reconciled, ops |-> ops, logged |-> logged]

\* history: when the last two successful message awards and the last two
\* voice awards were written (-1: none yet), and the run of consecutive successful
\* role syncs with the role set the first of them left
NoHist ==
    [msg_at |-> -1, msg_prev |-> -1, voice_at |-> -1, voice_prev |-> -1,
     syncs |-> 0, synced_roles |-> {}]

NoRun ==
    [op |-> "none", guild |-> 0, user |-> 0, channel |-> 0, arg |-> 0, at |-> 0,
     ret |-> NoResult, reconciled |-> FALSE, ops |-> {}, logged |-> FALSE]

(***************************************************************************)
(* Award protocol (xp_manager.py 176-275).                                 *)
(***************************************************************************)
\* the gate one second short
CooldownActiveShort(current_time, last_award_at, cooldown_seconds) ==
    current_time - last_award_at < cooldown_seconds - 1

\* line 193 (and 242): the cooldown gate
CooldownActive(current_time, last_award_at, cooldown_seconds) ==
    current_time - last_award_at < cooldown_seconds

\* lines 179-184: the eligibility gate of award_message_xp
MessageEligible(u, ch) == ~is_user_exempt(u) /\ ch \in message_whitelist

\* lines 228-233: the eligibility gate of award_voice_xp
VoiceEligible(u, ch) == ~is_user_exempt(u) /\ ch \in voice_whitelist

\* a handler that returned None without touching the member's roles
ReturnNone(op, g, u, ch) ==
    /\ last' = Ran(op, g, u, ch, 0, NoResult, FALSE, {}, FALSE)
    /\ hist' = [hist EXCEPT !.syncs = 0]
    /\ UNCHANGED <<now, voice_sessions, member_roles>>

\* lines 205-223 (and 257-275): build the result, reconcile on a level-up
FinishAward(op, g, u, ch, xp_amount, user_data, updated_user) ==
    LET result == AwardResult(xp_amount, user_data, updated_user)
    IN  IF result.leveled_up
        THEN \E rem_out \in [get_user_reward_roles(u) -> Outcomes], add_out \in Outcomes :
               LET h == handle_level_up(u, result.old_level, result.new_level,
                                        rem_out, add_out)
               IN  /\ member_roles' = [member_roles EXCEPT ![u] = h.roles]
                   /\ last' = Ran(op, g, u, ch, result.new_level, result, TRUE,
                                  h.ops, h.logged)
        ELSE /\ member_roles' = member_roles
             /\ last' = Ran(op, g, u, ch, 0, result, FALSE, {}, FALSE)

\* what a run of the handlers is explored under: the delays between a
\* handler reading the clock and the database stamping the write, whether
\* the UPDATE can fail (database.py 146-150), and the caps on the clock and
\* on a user's XP
AwardLimits ==
    [delays |-> 0..MaxWriteDelay, db_ok |-> BOOLEAN, time |-> MaxTime, xp |-> MaxXP]

\* an update that counts nothing
update_user_message_count_noop(tbl, k, count) == tbl

\* database.py 247-265: UPDATE users SET message_count = message_count + ?
update_user_message_count(tbl, k, count) ==
    IF k \in DOMAIN tbl THEN [tbl EXCEPT ![k].message_count = @ + count] ELSE tbl

\* XPManager.award_message_xp, lines 176-223, and the messages its caller
\* counts once a result came back (message_tracker.py 42-46): `count` is 1
\* when the listener called and its update went through, else 0
AwardMessageCounted(g, u, ch, lim, count) ==
    LET k == <<g, u>>
        users1 == get_or_create_user(k)
        user_data == users1[k]
    IN  IF ~MessageEligible(u, ch)
        THEN users' = users /\ ReturnNone("award_message_xp", g, u, ch)
        ELSE IF CooldownActive(now, user_data.last_message_xp_timestamp,
                               xp_settings.message_cooldown_seconds)
        THEN users' = users1 /\ ReturnNone("award_message_xp", g, u, ch)
        ELSE \E xp_amount \in xp_settings.message_xp_min..xp_settings.message_xp_max,
                d \in lim.delays, db_ok \in lim.db_ok :
               /\ now + d <= lim.time
               /\ user_data.permanent_xp + xp_amount <= lim.xp
               /\ user_data.weekly_xp + xp_amount <= lim.xp
               /\ IF ~db_ok
                  THEN users' = users1 /\ ReturnNone("award_message_xp", g, u, ch)
                  ELSE LET users2 == [users1 EXCEPT
                                        ![k] = db_award_message_xp(@, xp_amount, now + d)]
                       IN  /\ users' = IF count = 0 THEN users2
                                     ELSE update_user_message_count(users2, k, count)
                           /\ now' = now + d
                           /\ voice_sessions' = voice_sessions
                           /\ hist' = [hist EXCEPT !.msg_at = now + d, !.msg_prev = hist.msg_at,
                                                 !.syncs = 0]
                           /\ FinishAward("award_message_xp", g, u, ch, xp_amount,
                                          user_data, users2[k])

\* XPManager.award_message_xp, lines 176-223, called on its own
AwardMessageXP(g, u, ch, lim) == AwardMessageCounted(g, u, ch, lim, 0)

\* MessageTracker.on_message, message_tracker.py 16-53: messages of bots and
\* of channels off the whitelist are ignored; after an award that returned a
\* result the message is counted.  The count may fail (the UPDATE raises and
\* update_user_message_count returns False, or sqlite3.connect raises and the
\* handler's except logs it): nothing is rolled back.  scn_log holds what
\* the run logged.
OnMessage(g, u, ch, lim) ==
    IF member_bot[u] \/ ch \notin message_whitelist
    THEN /\ users' = users
         /\ scn_log' = <<>>
         /\ ReturnNone("on_message", g, u, ch)
    ELSE \E count_ok \in lim.count_ok :
           /\ AwardMessageCounted(g, u, ch, lim, IF count_ok THEN 1 ELSE 0)
           /\ scn_log' = IF ~last'.ret.awarded THEN <<>>
                         ELSE IF count_ok THEN <<"awarded">>
                         ELSE <<"awarded", "count_error">>

\* XPManager.award_voice_xp, lines 225-275, run as `op`; a sweep that gets a
\* result then adds `minutes` to voice_time (voice_tracker.py 131-143)
VoiceAward(op, g, u, ch, lim, minutes) ==
    LET k == <<g, u>>
        users1 == get_or_create_user(k)
        user_data == users1[k]
    IN  IF ~VoiceEligible(u, ch)
        THEN users' = users /\ ReturnNone(op, g, u, ch)
        ELSE IF CooldownActive(now, user_data.last_voice_xp_timestamp,
                               xp_settings.voice_tick_interval_seconds)
        THEN users' = users1 /\ ReturnNone(op, g, u, ch)
        ELSE \E xp_amount \in xp_settings.voice_xp_min..xp_settings.voice_xp_max,
                d \in lim.delays, db_ok \in lim.db_ok :
               /\ now + d <= lim.time
               /\ user_data.permanent_xp + xp_amount <= lim.xp
               /\ user_data.weekly_xp + xp_amount <= lim.xp
               /\ IF ~db_ok
                  THEN users' = users1 /\ ReturnNone(op, g, u, ch)
                  ELSE LET users2 == [users1 EXCEPT
                                        ![k] = db_award_voice_xp(@, xp_amount, now + d)]
                       IN  /\ users' = [users2 EXCEPT ![k].voice_time = @ + minutes]
                           /\ now' = now + d
                           /\ voice_sessions' = update_voice_tick(k, now + d)
                           /\ hist' = [hist EXCEPT !.voice_at = now + d,
                                                   !.voice_prev = hist.voice_at,
                                                   !.syncs = 0]
                           /\ FinishAward(op, g, u, ch, xp_amount,
                                          user_data, users2[k])

\* XPManager.award_voice_xp called on its own
AwardVoiceXP(g, u, ch, lim) == VoiceAward("award_voice_xp", g, u, ch, lim, 0)

(***************************************************************************)
(* Voice sessions (database.py 428-511) and the voice tracker              *)
(* (cogs/voice_tracker.py).                                                *)
(***************************************************************************)
SessionsOf(k) == {row \in voice_sessions : <<row.guild_id, row.user_id>> = k}

VoiceSession(k, channel_id, at) ==
    [guild_id |-> k[1], user_id |-> k[2], channel_id |-> channel_id,
     join_time |-> at, last_xp_tick |-> 0]

\* an INSERT that leaves the rows already there
start_voice_session_insert(k, channel_id, at) ==
    voice_sessions \cup {VoiceSession(k, channel_id, at)}

\* lines 428-446: INSERT OR REPLACE under PRIMARY KEY (guild_id, user_id)
start_voice_session(k, channel_id, at) ==
    (voice_sessions \ SessionsOf(k)) \cup {VoiceSession(k, channel_id, at)}

\* lines 448-466
end_voice_session(k) == voice_sessions \ SessionsOf(k)

\* a tracker step that only writes the voice_sessions table; its record
\* keeps, as arg, how many session rows the user had
SessionStep(op, g, u, ch, sessions) ==
    /\ voice_sessions' = sessions
    /\ last' = Ran(op, g, u, ch, Cardinality(SessionsOf(<<g, u>>)), NoResult,
                   FALSE, {}, FALSE)
    /\ hist' = [hist EXCEPT !.syncs = 0]
    /\ UNCHANGED <<now, users, member_roles>>

\* VoiceTracker.handle_voice_join, lines 42-57
handle_voice_join(g, u, channel) ==
    IF channel \notin voice_whitelist
    THEN SessionStep("voice_join", g, u, channel, voice_sessions)
    ELSE SessionStep("voice_join", g, u, channel,
                     start_voice_session(<<g, u>>, channel, now))

\* VoiceTracker.handle_voice_leave, lines 59-70
handle_voice_leave(g, u, channel) ==
    SessionStep("voice_leave", g, u, channel, end_voice_session(<<g, u>>))

\* a move handler that leaves the session alone when the new channel is off
\* the whitelist
handle_voice_move_keeps_session(g, u, old_channel, new_channel) ==
    IF new_channel \notin voice_whitelist
    THEN SessionStep("voice_move", g, u, new_channel, voice_sessions)
    ELSE SessionStep("voice_move", g, u, new_channel,
                     start_voice_session(<<g, u>>, new_channel, now))

\* VoiceTracker.handle_voice_move, lines 72-89
handle_voice_move(g, u, old_channel, new_channel) ==
    IF new_channel \notin voice_whitelist
    THEN SessionStep("voice_move", g, u, new_channel, end_voice_session(<<g, u>>))
    ELSE SessionStep("voice_move", g, u, new_channel,
                     start_voice_session(<<g, u>>, new_channel, now))

\* VoiceTracker.on_voice_state_update, lines 21-40: the member goes from the
\* channel they are in to `after` (0: none) and the tracker handles it
OnVoiceStateUpdate(g, u, after) ==
    LET before == member_voice[u]
    IN  /\ before # after
        /\ member_voice' = [member_voice EXCEPT ![u] = after]
        /\ IF before = 0 THEN handle_voice_join(g, u, after)
           ELSE IF after = 0 THEN handle_voice_leave(g, u, before)
           ELSE handle_voice_move(g, u, before, after)

\* minutes_passed without its minimum of 1
MinutesPassedNoMinimum(current_time, last_xp_tick) ==
    (current_time - last_xp_tick) \div 60

\* lines 139-141: minutes_passed
MinutesPassed(current_time, last_xp_tick) ==
    Max((current_time - last_xp_tick) \div 60, 1)

\* voice_tracker.py 107-123: the member of the row has left the guild, the
\* channel of the row is gone, or the member is not in the row's channel
StaleSession(session) ==
    \/ session.user_id \notin guild_members
    \/ session.channel_id \notin guild_channels
    \/ member_voice[session.user_id] # session.channel_id

\* VoiceTracker.voice_tick_task, lines 106-146: the pass over one session row
VoiceTickSession(session, lim) ==
    LET g == session.guild_id
        u == session.user_id
    IN  /\ session \in voice_sessions
        /\ member_voice' = member_voice
        /\ IF StaleSession(session)
           THEN SessionStep("voice_tick", g, u, session.channel_id,
                            end_voice_session(<<g, u>>))
           ELSE IF now - session.last_xp_tick >= xp_settings.voice_tick_interval_seconds
           THEN VoiceAward("voice_tick", g, u, session.channel_id, lim,
                           MinutesPassed(now, session.last_xp_tick))
           ELSE SessionStep("voice_tick", g, u, session.channel_id, voice_sessions)

\* Database.award_message_xp / award_voice_xp reached for a key that has no
\* row (the manager creates the row before it calls them); ret.awarded of the
\* record of the call is the bool returned
AwardCallOnMissing(g, u, kind, xp_amount, db_ok) ==
    LET k == <<g, u>>
        call == award_xp_call(users, k, kind, xp_amount, now, db_ok)
    IN  /\ k \notin DOMAIN users
        /\ users' = call.users
        /\ last' = Ran("db_award", g, u, 0, xp_amount,
                       [NoResult EXCEPT !.awarded = call.success], FALSE, {}, FALSE)
        /\ UNCHANGED <<now, voice_sessions, member_roles, member_voice, hist>>

\* the member changes voice channel while the tracker is not listening
MissedVoiceChange(u, after) ==
    /\ member_voice[u] # after
    /\ member_voice' = [member_voice EXCEPT ![u] = after]
    /\ last' = NoRun
    /\ UNCHANGED <<now, users, voice_sessions, member_roles, hist>>

(***************************************************************************)
(* Admin commands (cogs/xp_commands.py 169-250) and the role sync.         *)
(***************************************************************************)
\* database.py 176-203 with weekly_xp None, and 205-225
db_set_xp_and_level(row, permanent_xp, level) ==
    [row EXCEPT !.permanent_xp = permanent_xp, !.level = level]

\* the sync at the end of a command that wrote tbl
SyncAfterSet(op, g, u, arg, tbl) ==
    \E rem_out \in [get_user_reward_roles(u) -> Outcomes], add_out \in Outcomes :
       LET r == sync_user_roles(tbl, g, u, rem_out, add_out)
       IN  /\ member_roles' = [member_roles EXCEPT ![u] = r.roles]
           /\ last' = Ran(op, g, u, 0, arg, NoResult, TRUE, r.ops, FALSE)
           /\ hist' = [hist EXCEPT
                         !.syncs = IF AllOk(r.ops) THEN 1 ELSE 0,
                         !.synced_roles = r.roles]

\* XPCommands.set_level_command, lines 221-250
SetLevelCommand(g, u, level) ==
    LET k == <<g, u>>
    IN  /\ UNCHANGED <<now, voice_sessions>>
        /\ IF level < 1 \/ k \notin DOMAIN users
           THEN /\ last' = Ran("set_level", g, u, 0, level, NoResult, FALSE, {}, FALSE)
                /\ hist' = [hist EXCEPT !.syncs = 0]
                /\ UNCHANGED <<users, member_roles>>
           ELSE LET tbl == [users EXCEPT ![k] = db_set_xp_and_level(
                                @, calculate_xp_for_level(level), level)]
                IN  /\ users' = tbl
                    /\ SyncAfterSet("set_level", g, u, level, tbl)

\* XPCommands.set_xp_command, lines 169-197
SetXpCommand(g, u, amount) ==
    LET k == <<g, u>>
    IN  /\ UNCHANGED <<now, voice_sessions>>
        /\ IF amount < 0 \/ k \notin DOMAIN users
           THEN /\ last' = Ran("set_xp", g, u, 0, 0, NoResult, FALSE, {}, FALSE)
                /\ hist' = [hist EXCEPT !.syncs = 0]
                /\ UNCHANGED <<users, member_roles>>
           ELSE LET tbl == [users EXCEPT ![k] = db_set_xp_and_level(
                                @, amount, calculate_level(amount))]
                IN  /\ users' = tbl
                    /\ SyncAfterSet("set_xp", g, u, calculate_level(amount), tbl)

\* XPManager.handle_level_up called on its own, lines 277-319
HandleLevelUp(g, u, old_level, new_level) ==
    /\ UNCHANGED <<now, users, voice_sessions>>
    /\ \E rem_out \in [get_user_reward_roles(u) -> Outcomes], add_out \in Outcomes :
         LET h == handle_level_up(u, old_level, new_level, rem_out, add_out)
         IN  /\ member_roles' = [member_roles EXCEPT ![u] = h.roles]
             /\ last' = Ran("handle_level_up", g, u, 0, new_level, NoResult, TRUE,
                            h.ops, h.logged)
             /\ hist' = [hist EXCEPT !.syncs = 0]

\* XPManager.sync_user_roles called on its own, lines 407-443
SyncUserRoles(g, u) ==
    /\ UNCHANGED <<now, users, voice_sessions>>
    /\ \E rem_out \in [get_user_reward_roles(u) -> Outcomes], add_out \in Outcomes :
         LET r == sync_user_roles(users, g, u, rem_out, add_out)
             stored == IF <<g, u>> \in DOMAIN users THEN users[<<g, u>>].level ELSE 0
         IN  /\ member_roles' = [member_roles EXCEPT ![u] = r.roles]
             /\ last' = Ran("sync", g, u, 0, stored, NoResult, TRUE, r.ops, FALSE)
             /\ hist' = [hist EXCEPT
                           !.syncs = IF ~AllOk(r.ops) THEN 0
                                     ELSE IF @ = 0 THEN 1 ELSE 2,
                           !.synced_roles = IF AllOk(r.ops) /\ hist.syncs >= 1
                                            THEN @ ELSE r.roles]

(***************************************************************************)
(* The environment: the clock, and role edits made outside the bot.        *)
(***************************************************************************)
Tick(limit) ==
    /\ now < limit
    /\ now' = now + 1
    /\ UNCHANGED <<users, voice_sessions, member_roles, last, hist>>

ExternalRoleEdit(u, r) ==
    /\ r \in guild_roles
    /\ member_roles' = [member_roles EXCEPT
                          ![u] = IF r \in @ THEN @ \ {r} ELSE @ \cup {r}]
    /\ last' = NoRun
    /\ hist' = [hist EXCEPT !.syncs = 0]
    /\ UNCHANGED <<now, users, voice_sessions>>

(***************************************************************************)
(* Configurations the specifications start from.                           *)
(***************************************************************************)
Tier(level, role) == [key |-> StrOfInt(level), role |-> role]

Anchor(level, xp) == [level |-> level, xp |-> xp]

AnchorFormula(anchors) ==
    [type |-> "xp_anchors", base_xp |-> 100, mult_num |-> 3, mult_den |-> 2,
     anchors |-> anchors]

ExponentialFormula(base_xp, num, den) ==
    [type |-> "exponential", base_xp |-> base_xp, mult_num |-> num,
     mult_den |-> den, anchors |-> <<>>]

\* a curve with a level every 2 XP: thresholds 0, 2, 4, 6, ...
SmallFormula == AnchorFormula(<<Anchor(3, 4)>>)

SmallSettings ==
    [message_xp_min |-> 1, message_xp_max |-> 2, message_cooldown_seconds |-> 2,
     voice_xp_min |-> 1, voice_xp_max |-> 2, voice_tick_interval_seconds |-> 3]

\* the same amounts with no cooldown and no tick interval
NoWaitSettings ==
    [message_xp_min |-> 1, message_xp_max |-> 2, message_cooldown_seconds |-> 0,
     voice_xp_min |-> 1, voice_xp_max |-> 2, voice_tick_interval_seconds |-> 0]

\* one map stored out of order, one whose lowest threshold is above level 2
OutOfOrderTiers == <<Tier(3, 2), Tier(2, 1)>>

HighTiers == <<Tier(3, 1), Tier(4, 2)>>

SmallTierMaps == {OutOfOrderTiers, HighTiers}

InitIdle ==
    /\ last = NoRun
    /\ hist = NoHist
    /\ scn_pc = "off"
    /\ scn_log = <<>>
    /\ tasks = <<>>
    /\ fn_in = <<>>
    /\ fn_out = <<>>

\* the guild with every member and every channel the model has
InitGuild ==
    /\ guild_members = {1, 2}
    /\ guild_channels = TextChannels \cup VoiceChannels

idle_vars == <<scn_pc, scn_log, fn_in, fn_out, tasks>>

\* what neither the award handlers nor the role commands write
static_vars == <<member_bot, member_voice, weekly_archives, guild_roles, guild_members, guild_channels, config_vars>>

fixed_vars == <<static_vars, idle_vars>>

(***************************************************************************)
(* Spec: the award handlers called one after another while the clock runs. *)
(***************************************************************************)
Init ==
    /\ now = 0
    /\ users = EmptyTable
    /\ voice_sessions = NoSessions
    /\ guild_roles = RoleIds
    /\ member_roles = [u \in UserIds |-> {}]
    /\ member_bot \in [UserIds -> BOOLEAN]
    /\ member_voice = [u \in UserIds |-> 0]
    /\ weekly_archives = <<>>
    /\ role_rewards = OutOfOrderTiers
    /\ exempt_roles = {4}
    /\ message_whitelist = {1}
    /\ voice_whitelist = {11}
    /\ xp_settings = SmallSettings
    /\ level_formula = SmallFormula
    /\ InitIdle
    /\ InitGuild

Next ==
    \/ Tick(MaxTime) /\ UNCHANGED fixed_vars
    \/ \E g \in GuildIds, u \in UserIds, ch \in TextChannels :
         AwardMessageXP(g, u, ch, AwardLimits) /\ UNCHANGED fixed_vars
    \/ \E g \in GuildIds, u \in UserIds, ch \in VoiceChannels :
         AwardVoiceXP(g, u, ch, AwardLimits) /\ UNCHANGED fixed_vars
    \/ \E u \in UserIds, r \in exempt_roles :
         ExternalRoleEdit(u, r) /\ UNCHANGED fixed_vars

Spec == Init /\ [][Next]_vars

(***************************************************************************)
(* SpecSetLevel: the admin commands setlevel and setxp on one stored       *)
(* record, for levels inside the threshold table and above its last level  *)
(* (100), under a rising curve and under one whose first levels share a    *)
(* threshold.                                                              *)
(***************************************************************************)
SetLevels == (0..MaxLevel) \cup {100, 101}

\* thresholds 0, 0, 1 for the levels 1, 2, 3
SharedThresholdFormula == AnchorFormula(<<Anchor(3, 1)>>)

InitSetLevel ==
    /\ now = 0
    /\ users = (<<1, 1>> :> NewUser)
    /\ voice_sessions = NoSessions
    /\ guild_roles = RoleIds
    /\ member_roles = [u \in UserIds |-> {}]
    /\ member_bot = [u \in UserIds |-> FALSE]
    /\ member_voice = [u \in UserIds |-> 0]
    /\ weekly_archives = <<>>
    /\ role_rewards = OutOfOrderTiers
    /\ exempt_roles = {4}
    /\ message_whitelist = {1}
    /\ voice_whitelist = {11}
    /\ xp_settings = NoWaitSettings
    /\ level_formula \in {SmallFormula, SharedThresholdFormula}
    /\ InitIdle
    /\ InitGuild

NextSetLevel ==
    \/ \E g \in GuildIds, u \in UserIds, level \in SetLevels :
         SetLevelCommand(g, u, level) /\ UNCHANGED fixed_vars
    \/ \E g \in GuildIds, u \in UserIds, amount \in (-1)..MaxXP :
         SetXpCommand(g, u, amount) /\ UNCHANGED fixed_vars

SpecSetLevel == InitSetLevel /\ [][NextSetLevel]_vars

(***************************************************************************)
(* SpecMessages: the message listener over a running clock, for members    *)
(* and bots, in a whitelisted channel and in one that is not.              *)
(***************************************************************************)
MessageLimits ==
    [delays |-> {0}, db_ok |-> BOOLEAN, time |-> MaxTime, xp |-> MaxXP,
     count_ok |-> BOOLEAN]

message_fixed_vars == <<static_vars, scn_pc, fn_in, fn_out, tasks>>

NextMessages ==
    \/ Tick(MaxTime) /\ UNCHANGED <<message_fixed_vars, scn_log>>
    \/ \E g \in GuildIds, u \in UserIds, ch \in TextChannels :
         OnMessage(g, u, ch, MessageLimits) /\ UNCHANGED message_fixed_vars
    \/ \E u \in UserIds, r \in exempt_roles :
         ExternalRoleEdit(u, r) /\ UNCHANGED <<message_fixed_vars, scn_log>>

SpecMessages == Init /\ [][NextMessages]_vars

(***************************************************************************)
(* SpecRoles: message awards, admin commands, role syncs and outside role edits,   *)
(* with no cooldown, at one clock reading (reconciliation reads no clock). *)
(***************************************************************************)
InitRoles ==
    /\ now = MaxTime
    /\ users = EmptyTable
    /\ voice_sessions = NoSessions
    /\ \E c \in (SmallTierMaps \X {RoleIds}) \cup {<<OutOfOrderTiers, RoleIds \ {2}>>} :
         role_rewards = c[1] /\ guild_roles = c[2]
    /\ member_roles = [u \in UserIds |-> {}]
    /\ member_bot = [u \in UserIds |-> FALSE]
    /\ member_voice = [u \in UserIds |-> 0]
    /\ weekly_archives = <<>>
    /\ exempt_roles = {4}
    /\ message_whitelist = {1}
    /\ voice_whitelist = {11}
    /\ xp_settings = NoWaitSettings
    /\ level_formula = SmallFormula
    /\ InitIdle
    /\ InitGuild

NextRoles ==
    \/ \E g \in GuildIds, u \in UserIds, ch \in TextChannels :
         AwardMessageXP(g, u, ch, AwardLimits) /\ UNCHANGED fixed_vars
    \/ \E g \in GuildIds, u \in UserIds, level \in 0..MaxLevel :
         SetLevelCommand(g, u, level) /\ UNCHANGED fixed_vars
    \/ \E g \in GuildIds, u \in UserIds, amount \in 0..MaxXP :
         SetXpCommand(g, u, amount) /\ UNCHANGED fixed_vars
    \/ \E g \in GuildIds, u \in UserIds :
         SyncUserRoles(g, u) /\ UNCHANGED fixed_vars
    \/ \E u \in UserIds, r \in RewardRoleIds :
         ExternalRoleEdit(u, r) /\ UNCHANGED fixed_vars

SpecRoles == InitRoles /\ [][NextRoles]_vars


(***************************************************************************)
(* The default configuration (config_manager.py 43-96), with two of its    *)
(* reward tiers.                                                           *)
(***************************************************************************)
DefaultSettings ==
    [message_xp_min |-> 25, message_xp_max |-> 25, message_cooldown_seconds |-> 15,
     voice_xp_min |-> 25, voice_xp_max |-> 25, voice_tick_interval_seconds |-> 60]

DefaultFormula ==
    AnchorFormula(<<Anchor(5, 7500), Anchor(10, 60000), Anchor(20, 120000),
                    Anchor(30, 225000), Anchor(50, 375000)>>)

ScenarioTiers == <<Tier(5, 1), Tier(10, 2)>>

\* a scenario call runs at one clock reading against a database that
\* works; up to three default awards fit
ScenarioLimits ==
    [delays |-> {0}, db_ok |-> {TRUE}, time |-> MaxStart + 16,
     xp |-> 3 * DefaultSettings.message_xp_max]

InitScenario ==
    /\ now \in 0..MaxStart
    /\ users = EmptyTable
    /\ voice_sessions = NoSessions
    /\ guild_roles = RoleIds
    /\ member_bot = [u \in UserIds |-> FALSE]
    /\ member_voice = [u \in UserIds |-> 0]
    /\ weekly_archives = <<>>
    /\ role_rewards = ScenarioTiers
    /\ exempt_roles = {4}
    /\ message_whitelist = {1}
    /\ voice_whitelist = {11}
    /\ xp_settings = DefaultSettings
    /\ level_formula = DefaultFormula
    /\ last = NoRun
    /\ hist = NoHist
    /\ scn_log = <<>>
    /\ tasks = <<>>
    /\ InitGuild
    /\ fn_in = <<>>
    /\ fn_out = <<>>

(***************************************************************************)
(* SpecCooldown: a new user sends three messages, the second 10 seconds    *)
(* and the third 16 seconds after the first.                               *)
(***************************************************************************)
InitCooldown ==
    /\ InitScenario
    /\ member_roles = [u \in UserIds |-> {}]
    /\ scn_pc = "first"

ScnMessage(next) ==
    /\ AwardMessageXP(1, 1, 1, ScenarioLimits)
    /\ scn_log' = Append(scn_log, [at |-> now, ret |-> last'.ret])
    /\ scn_pc' = next
    /\ UNCHANGED <<static_vars, fn_in, fn_out, tasks>>

ScnDue == scn_log[1].at + (IF scn_pc = "second" THEN 10 ELSE 16)

ScnFirst == scn_pc = "first" /\ ScnMessage("second")

ScnWait ==
    /\ scn_pc \in {"second", "third"}
    /\ Tick(ScnDue)
    /\ UNCHANGED fixed_vars

ScnSecond == scn_pc = "second" /\ now = ScnDue /\ ScnMessage("third")

ScnThird == scn_pc = "third" /\ now = ScnDue /\ ScnMessage("done")

NextCooldown == ScnFirst \/ ScnWait \/ ScnSecond \/ ScnThird

SpecCooldown == InitCooldown /\ [][NextCooldown]_vars

(***************************************************************************)
(* SpecTiers: a member with a record is reconciled at level 7, levels up   *)
(* to 12, and is then set to level 8 by an admin.                          *)
(***************************************************************************)
InitTiers ==
    /\ InitScenario
    /\ member_roles \in [UserIds -> SUBSET {1, 2}]
    /\ scn_pc = "create"

ScnStep(next) ==
    /\ scn_log' = Append(scn_log, [ops |-> last'.ops,
                                   held |-> member_roles'[1] \cap RewardRoleIds])
    /\ scn_pc' = next
    /\ UNCHANGED <<static_vars, fn_in, fn_out, tasks>>

ScnCreate ==
    /\ scn_pc = "create"
    /\ AwardMessageXP(1, 1, 1, ScenarioLimits)
    /\ scn_pc' = "reconcile7"
    /\ UNCHANGED <<static_vars, scn_log, fn_in, fn_out, tasks>>

ScnReconcile7 ==
    scn_pc = "reconcile7" /\ HandleLevelUp(1, 1, 6, 7) /\ ScnStep("levelup12")

ScnLevelUp12 ==
    scn_pc = "levelup12" /\ HandleLevelUp(1, 1, 7, 12) /\ ScnStep("setlevel8")

ScnSetLevel8 ==
    scn_pc = "setlevel8" /\ SetLevelCommand(1, 1, 8) /\ ScnStep("done")

NextTiers == ScnCreate \/ ScnReconcile7 \/ ScnLevelUp12 \/ ScnSetLevel8

SpecTiers == InitTiers /\ [][NextTiers]_vars

(***************************************************************************)
(* SpecTierFn: get_appropriate_reward_role applied to one level under one  *)
(* tier map, of up to MaxTiers tiers stored in any order.                  *)
(***************************************************************************)
TierThresholds == {3 * i : i \in 1..MaxLevel}

TierMaps ==
    LET entries == {Tier(t, r) : t \in TierThresholds, r \in {1, 2}}
        seqs == UNION {[1..n -> entries] : n \in 0..MaxTiers}
    IN  {m \in seqs : \A i, j \in DOMAIN m : i # j => m[i].key # m[j].key}

InitTierFn ==
    /\ now = 0
    /\ users = EmptyTable
    /\ voice_sessions = NoSessions
    /\ guild_roles = RoleIds
    /\ member_roles = [u \in UserIds |-> {}]
    /\ member_bot = [u \in UserIds |-> FALSE]
    /\ member_voice = [u \in UserIds |-> 0]
    /\ weekly_archives = <<>>
    /\ role_rewards \in TierMaps
    /\ exempt_roles = {4}
    /\ message_whitelist = {1}
    /\ voice_whitelist = {11}
    /\ xp_settings = SmallSettings
    /\ level_formula = SmallFormula
    /\ last = NoRun
    /\ hist = NoHist
    /\ scn_pc = "off"
    /\ scn_log = <<>>
    /\ tasks = <<>>
    /\ InitGuild
    /\ fn_in \in {<<level>> : level \in 0..(3 * MaxLevel)}
    /\ fn_out = <<>>

ComputeTier ==
    /\ fn_out = <<>>
    /\ fn_out' = <<get_appropriate_reward_role(fn_in[1])>>
    /\ UNCHANGED <<now, users, voice_sessions, member_roles, last, hist,
                   static_vars, scn_pc, scn_log, fn_in, tasks>>

NextTierFn == ComputeTier

SpecTierFn == InitTierFn /\ [][NextTierFn]_vars

(***************************************************************************)
(* SpecVoice: members join, move between and leave voice channels, with    *)
(* the tracker listening or not, while the sweep and direct voice awards   *)
(* run and the clock advances.                                             *)
(***************************************************************************)
InitVoice ==
    /\ now = 0
    /\ users = EmptyTable
    /\ voice_sessions = NoSessions
    /\ guild_roles = RoleIds
    /\ member_roles = [u \in UserIds |-> {}]
    /\ member_bot = [u \in UserIds |-> FALSE]
    /\ member_voice = [u \in UserIds |-> 0]
    /\ weekly_archives = <<>>
    /\ role_rewards = OutOfOrderTiers
    /\ exempt_roles = {4}
    /\ message_whitelist = {1}
    /\ voice_whitelist = {11}
    /\ xp_settings = SmallSettings
    /\ level_formula = SmallFormula
    /\ InitIdle
    /\ InitGuild

voice_fixed_vars == <<member_bot, weekly_archives, guild_roles, guild_members, guild_channels, config_vars, idle_vars>>

NextVoice ==
    \/ Tick(MaxTime) /\ UNCHANGED fixed_vars
    \/ \E g \in GuildIds, u \in UserIds, after \in VoiceChannels \cup {0} :
         OnVoiceStateUpdate(g, u, after) /\ UNCHANGED voice_fixed_vars
    \/ \E u \in UserIds, after \in VoiceChannels \cup {0} :
         MissedVoiceChange(u, after) /\ UNCHANGED voice_fixed_vars
    \/ \E session \in voice_sessions :
         VoiceTickSession(session, AwardLimits) /\ UNCHANGED voice_fixed_vars
    \/ \E g \in GuildIds, u \in UserIds, ch \in VoiceChannels :
         AwardVoiceXP(g, u, ch, AwardLimits) /\ UNCHANGED fixed_vars
    \/ \E g \in GuildIds, u \in UserIds, kind \in {"message", "voice"},
          xp_amount \in xp_settings.voice_xp_min..xp_settings.voice_xp_max, db_ok \in BOOLEAN :
         AwardCallOnMissing(g, u, kind, xp_amount, db_ok) /\ UNCHANGED voice_fixed_vars

SpecVoice == InitVoice /\ [][NextVoice]_vars

(***************************************************************************)
(* SpecEvents: the voice tracker when it hears every voice event: the      *)
(* members join, move and leave, each event handled before the next, and   *)
(* the sweep goes over the sessions between events.                        *)
(***************************************************************************)
NextEvents ==
    \/ Tick(MaxTime) /\ UNCHANGED fixed_vars
    \/ \E g \in GuildIds, u \in UserIds, after \in VoiceChannels \cup {0} :
         OnVoiceStateUpdate(g, u, after) /\ UNCHANGED voice_fixed_vars
    \/ \E session \in voice_sessions :
         VoiceTickSession(session, AwardLimits) /\ UNCHANGED voice_fixed_vars

SpecEvents == InitVoice /\ [][NextEvents]_vars

(***************************************************************************)
(* SpecCurve: calculate_level and calculate_xp_for_level applied under one *)
(* anchor configuration: up to two anchors in any order, valid or not      *)
(* (level 1, negative xp), with equal levels or falling xp, none at all    *)
(* (the fallback curve), or the default anchors.                           *)
(***************************************************************************)
AnchorChoices ==
    {Anchor(l, x) : l \in 1..MaxAnchorLevel, x \in (-1)..MaxAnchorXp}

AnchorLists == UNION {[1..n -> AnchorChoices] : n \in {0, 1, 2}}

CurveFormulas == {AnchorFormula(a) : a \in AnchorLists} \cup {DefaultFormula}

FallbackEdges == {t - e : t \in {100, 300, 700, 1500, 2300}, e \in {0, 1}}

\* the totals a curve is evaluated at: the small ones, and around the
\* thresholds of the fallback curve when that is the curve in force
CurveXps ==
    (0..MaxCurveXp) \cup
        (IF ValidAnchors(level_formula.anchors) = <<>> THEN FallbackEdges ELSE {})

InitPure ==
    /\ users = EmptyTable
    /\ voice_sessions = NoSessions
    /\ guild_roles = RoleIds
    /\ member_roles = [u \in UserIds |-> {}]
    /\ member_bot = [u \in UserIds |-> FALSE]
    /\ member_voice = [u \in UserIds |-> 0]
    /\ weekly_archives = <<>>
    /\ role_rewards = OutOfOrderTiers
    /\ exempt_roles = {4}
    /\ message_whitelist = {1}
    /\ voice_whitelist = {11}
    /\ xp_settings = SmallSettings
    /\ last = NoRun
    /\ hist = NoHist
    /\ scn_pc = "off"
    /\ scn_log = <<>>
    /\ tasks = <<>>
    /\ InitGuild
    /\ fn_out = <<>>

pure_fixed_vars ==
    <<now, users, voice_sessions, member_roles, last, hist, static_vars,
      scn_pc, scn_log, fn_in, tasks>>

InitCurve ==
    /\ InitPure
    /\ now = 0
    /\ level_formula \in CurveFormulas
    /\ fn_in = <<>>

\* the level at every XP total, and the XP of that level and of the next
ComputeCurve ==
    /\ fn_out = <<>>
    /\ LET levels == [xp \in CurveXps |-> calculate_level(xp)]
       IN  fn_out' = <<[levels |-> levels,
                        lower  |-> [xp \in CurveXps |->
                                      calculate_xp_for_level(levels[xp])],
                        upper  |-> [xp \in CurveXps |->
                                      calculate_xp_for_level(levels[xp] + 1)]]>>
    /\ UNCHANGED pure_fixed_vars

NextCurve == ComputeCurve

SpecCurve == InitCurve /\ [][NextCurve]_vars

(***************************************************************************)
(* SpecSlope: the steps of the threshold table from the highest anchor to  *)
(* level 100, and of calculate_xp_for_level past the table, under one      *)
(* anchor configuration that has a valid anchor.                           *)
(***************************************************************************)
ComputeSlope ==
    /\ fn_out = <<>>
    /\ SortedAnchors(level_formula) # <<>>
    /\ LET anchors == SortedAnchors(level_formula)
           highest_anchor == anchors[Len(anchors)].level
       IN  fn_out' = <<[highest_anchor |-> highest_anchor,
                        last_step |-> Threshold(anchors, highest_anchor)
                                        - Threshold(anchors, highest_anchor - 1),
                        steps |-> [l \in highest_anchor..99 |->
                                     Threshold(anchors, l + 1) - Threshold(anchors, l)],
                        beyond |-> [l \in {100, 101} |->
                                      calculate_xp_for_level(l + 1)
                                        - calculate_xp_for_level(l)]]>>
    /\ UNCHANGED pure_fixed_vars

NextSlope == ComputeSlope

SpecSlope == InitCurve /\ [][NextSlope]_vars

(***************************************************************************)
(* SpecAnchors: the curve read back at each valid anchor of the            *)
(* configuration.                                                          *)
(***************************************************************************)
ComputeAnchors ==
    /\ fn_out = <<>>
    /\ LET valid == ValidAnchors(level_formula.anchors)
       IN  fn_out' = <<[anchors |-> valid,
                        xp_at |-> [i \in DOMAIN valid |->
                                     calculate_xp_for_level(valid[i].level)],
                        level_at |-> [i \in DOMAIN valid |->
                                        calculate_level(valid[i].xp)],
                        first |-> calculate_xp_for_level(1)]>>
    /\ UNCHANGED pure_fixed_vars

NextAnchors == ComputeAnchors

SpecAnchors == InitCurve /\ [][NextAnchors]_vars

(***************************************************************************)
(* SpecFallback: calculate_level and calculate_xp_for_level under an       *)
(* anchor configuration with no valid anchor: an empty list, or anchors    *)
(* with level 1 or negative xp; the XP totals and the levels asked for go  *)
(* below 0 and past the five levels of the built-in curve.                 *)
(***************************************************************************)
InvalidAnchorLists == {a \in AnchorLists : ValidAnchors(a) = <<>>}

FallbackXps == ((-1)..MaxCurveXp) \cup FallbackEdges

FallbackLevels == (-1)..(MaxTableLevel + 1)

InitFallback ==
    /\ InitPure
    /\ now = 0
    /\ level_formula \in {AnchorFormula(a) : a \in InvalidAnchorLists}
    /\ fn_in = <<>>

ComputeFallback ==
    /\ fn_out = <<>>
    /\ fn_out' = <<[levels |-> [xp \in FallbackXps |-> calculate_level(xp)],
                    xps |-> [level \in FallbackLevels |->
                               calculate_xp_for_level(level)]]>>
    /\ UNCHANGED pure_fixed_vars

NextFallback == ComputeFallback

SpecFallback == InitFallback /\ [][NextFallback]_vars

(***************************************************************************)
(* SpecRoundTrip: a level of the threshold table taken to its XP and back. *)
(***************************************************************************)
TableLevels == (1..MaxTableLevel) \cup {99, 100}

InitRoundTrip ==
    /\ InitPure
    /\ now = 0
    /\ level_formula \in CurveFormulas
    /\ fn_in \in {<<level>> : level \in TableLevels}

ComputeRoundTrip ==
    /\ fn_out = <<>>
    /\ fn_in[1] <= HighestLevel(SortedAnchors(level_formula))
    /\ LET xp == calculate_xp_for_level(fn_in[1])
       IN  fn_out' = <<[xp |-> xp,
                        back |-> calculate_level(xp),
                        below |-> IF xp > 0 THEN calculate_level(xp - 1) ELSE 0]>>
    /\ UNCHANGED pure_fixed_vars

NextRoundTrip == ComputeRoundTrip

SpecRoundTrip == InitRoundTrip /\ [][NextRoundTrip]_vars

(***************************************************************************)
(* SpecExp: the exponential curve, for the multipliers 3/2 and 2 and small *)
(* base_xp, and for the default base_xp 100 with multiplier 3/2.           *)
(***************************************************************************)
Multipliers == {<<3, 2>>, <<2, 1>>}

ExpFormulas ==
    {ExponentialFormula(b, m[1], m[2]) : b \in 1..MaxBaseXp, m \in Multipliers}
        \cup {ExponentialFormula(100, 3, 2)}

\* totals around the default curve's levels 2 to 4 (150, 225, 337)
DefaultExpEdges == {99, 100, 149, 150, 224, 225, 337, 338}

InitExp ==
    /\ InitPure
    /\ now = 0
    /\ level_formula \in ExpFormulas
    /\ fn_in \in {<<xp>> : xp \in (0..MaxCurveXp) \cup DefaultExpEdges}

\* the level of an XP total, and the XP of that level and of the next
ComputeExp ==
    /\ fn_out = <<>>
    /\ LET level == calculate_level(fn_in[1])
       IN  fn_out' = <<[level |-> level,
                        lower |-> calculate_xp_for_level(level),
                        upper |-> calculate_xp_for_level(level + 1)]>>
    /\ UNCHANGED pure_fixed_vars

NextExp == ComputeExp

SpecExp == InitExp /\ [][NextExp]_vars

(***************************************************************************)
(* SpecStore: the writes of the users table and the weekly archive, for    *)
(* two guilds stored in one database: award writes with their counters,    *)
(* setxp, resetweekly and resetxp.                                         *)
(***************************************************************************)
StoreKeys == {<<1, 1>>, <<1, 2>>, <<2, 1>>}

StoreGuilds == {k[1] : k \in StoreKeys}

\* the XP totals the rows of the store take
StoreXpTotals == {0, 1}

\* a curve with a level at every XP: thresholds 0, 1, 2, ...
StoreFormula == AnchorFormula(<<Anchor(2, 1)>>)

store_fixed_vars ==
    <<now, voice_sessions, member_roles, last, hist, member_bot, member_voice,
      guild_roles, guild_members, guild_channels, config_vars, idle_vars>>

InitStore ==
    /\ InitPure
    /\ now = MaxTime
    /\ level_formula = StoreFormula
    /\ fn_in = <<>>

\* MessageTracker.on_message after a successful award: the award's UPDATE
\* (database.py 134-140) and update_user_message_count (253-256)
RecordMessage(k, xp_amount) ==
    /\ RowBefore(k).permanent_xp + xp_amount \in StoreXpTotals
    /\ RowBefore(k).weekly_xp + xp_amount \in StoreXpTotals
    /\ users' = (k :> [db_award_message_xp(RowBefore(k), xp_amount, now)
                         EXCEPT !.message_count = @ + 1]) @@ users
    /\ UNCHANGED weekly_archives

\* VoiceTracker.voice_tick_task after a successful award: the award's UPDATE
\* (database.py 158-164) and update_user_voice_time (233-236)
RecordVoice(k, xp_amount, minutes) ==
    /\ RowBefore(k).permanent_xp + xp_amount \in StoreXpTotals
    /\ RowBefore(k).weekly_xp + xp_amount \in StoreXpTotals
    /\ users' = (k :> [db_award_voice_xp(RowBefore(k), xp_amount, now)
                         EXCEPT !.voice_time = @ + minutes]) @@ users
    /\ UNCHANGED weekly_archives

\* Database.set_user_xp (176-203) and set_user_level (205-225), as setxp
\* calls them: no row, no write
SetUserXp(k, permanent_xp) ==
    /\ users' = IF k \in DOMAIN users
                THEN [users EXCEPT ![k] = db_set_xp_and_level(
                                            @, permanent_xp,
                                            calculate_level(permanent_xp))]
                ELSE users
    /\ UNCHANGED weekly_archives

\* Database.reset_weekly_leaderboard, lines 386-426: one transaction, rolled
\* back on an error
ResetWeeklyLeaderboard(guild_id, db_ok) ==
    /\ Len(archive_weekly(weekly_archives, users, guild_id)) <= MaxArchives
    /\ IF db_ok
       THEN /\ weekly_archives' = archive_weekly(weekly_archives, users, guild_id)
            /\ users' = zero_weekly(users, guild_id)
       ELSE UNCHANGED <<users, weekly_archives>>

\* Database.reset_user_all, lines 267-293: success is rowcount > 0
ResetUserAll(k, db_ok) ==
    /\ users' = IF db_ok /\ k \in DOMAIN users
                THEN [users EXCEPT ![k] = reset_user_all(@)]
                ELSE users
    /\ UNCHANGED weekly_archives

NextStore ==
    \/ \E k \in StoreKeys : RecordMessage(k, 1) /\ UNCHANGED store_fixed_vars
    \/ \E k \in StoreKeys : RecordVoice(k, 1, 1) /\ UNCHANGED store_fixed_vars
    \/ \E k \in StoreKeys, permanent_xp \in StoreXpTotals :
         SetUserXp(k, permanent_xp) /\ UNCHANGED store_fixed_vars
    \/ \E guild_id \in StoreGuilds, db_ok \in BOOLEAN :
         ResetWeeklyLeaderboard(guild_id, db_ok) /\ UNCHANGED store_fixed_vars
    \/ \E k \in StoreKeys, db_ok \in BOOLEAN :
         ResetUserAll(k, db_ok) /\ UNCHANGED store_fixed_vars

SpecStore == InitStore /\ [][NextStore]_vars

(***************************************************************************)
(* SpecRollover: message awards, voice awards, sweep passes and weekly     *)
(* rollovers of one member who sits in a whitelisted voice channel, with   *)
(* a message XP minimum of 0, no cooldown and one clock reading (the XP    *)
(* written depends on no clock); no admin set or reset.                    *)
(***************************************************************************)
ZeroMinSettings == [NoWaitSettings EXCEPT !.message_xp_min = 0]

RolloverLimits == [AwardLimits EXCEPT !.delays = {0}]

InitRollover ==
    /\ now = MaxTime
    /\ users = EmptyTable
    /\ voice_sessions = {VoiceSession(<<g, u>>, 11, 0) : g \in GuildIds, u \in UserIds}
    /\ guild_roles = RoleIds
    /\ member_roles = [u \in UserIds |-> {}]
    /\ member_bot = [u \in UserIds |-> FALSE]
    /\ member_voice = [u \in UserIds |-> 11]
    /\ weekly_archives = <<>>
    /\ role_rewards = OutOfOrderTiers
    /\ exempt_roles = {4}
    /\ message_whitelist = {1}
    /\ voice_whitelist = {11}
    /\ xp_settings = ZeroMinSettings
    /\ level_formula = SmallFormula
    /\ InitIdle
    /\ InitGuild

rollover_fixed_vars ==
    <<member_bot, member_voice, guild_roles, guild_members, guild_channels, config_vars, idle_vars>>

\* XPCommands.reset_weekly_command, xp_commands.py 252-268
ResetWeeklyCommand(guild_id, db_ok) ==
    /\ ResetWeeklyLeaderboard(guild_id, db_ok)
    /\ last' = Ran("resetweekly", guild_id, 0, 0, 0, NoResult, FALSE, {}, FALSE)
    /\ UNCHANGED <<now, voice_sessions, member_roles, hist>>

NextRollover ==
    \/ \E g \in GuildIds, u \in UserIds, ch \in TextChannels :
         AwardMessageXP(g, u, ch, RolloverLimits) /\ UNCHANGED fixed_vars
    \/ \E g \in GuildIds, u \in UserIds, ch \in VoiceChannels :
         AwardVoiceXP(g, u, ch, RolloverLimits) /\ UNCHANGED fixed_vars
    \/ \E session \in voice_sessions :
         VoiceTickSession(session, RolloverLimits)
           /\ UNCHANGED <<weekly_archives, rollover_fixed_vars>>
    \/ \E g \in GuildIds, db_ok \in BOOLEAN :
         ResetWeeklyCommand(g, db_ok) /\ UNCHANGED rollover_fixed_vars

SpecRollover == InitRollover /\ [][NextRollover]_vars

(***************************************************************************)
(* SpecSetWeekly: the setweekly command applied to a record that awards,   *)
(* a sweep and setxp may have written, or to no record.                    *)
(***************************************************************************)
SetWeeklyRows ==
    [permanent_xp : 0..MaxStoreRowXp, weekly_xp : 0..MaxStoreRowXp, level : {1, 2},
     last_message_xp_timestamp : {0, MaxTime}, last_voice_xp_timestamp : {0, MaxTime},
     voice_time : {0, 1}, message_count : {0, 1}]

InitSetWeekly ==
    /\ now = MaxTime
    /\ users \in {EmptyTable} \cup {(<<1, 1>> :> row) : row \in SetWeeklyRows}
    /\ voice_sessions = NoSessions
    /\ guild_roles = RoleIds
    /\ member_roles = [u \in UserIds |-> {}]
    /\ member_bot = [u \in UserIds |-> FALSE]
    /\ member_voice = [u \in UserIds |-> 0]
    /\ weekly_archives = <<>>
    /\ role_rewards = OutOfOrderTiers
    /\ exempt_roles = {4}
    /\ message_whitelist = {1}
    /\ voice_whitelist = {11}
    /\ xp_settings = SmallSettings
    /\ level_formula = SmallFormula
    /\ InitIdle
    /\ InitGuild

\* XPCommands.set_weekly_command, xp_commands.py 199-219: a negative amount
\* is refused, otherwise set_user_xp(guild, user, None, amount), whose
\* UPDATE matches the row or nothing
SetWeeklyCommand(g, u, amount) ==
    LET k == <<g, u>>
    IN  /\ users' = IF amount >= 0 /\ k \in DOMAIN users
                    THEN [users EXCEPT ![k] = set_user_xp_both(@, Null, amount)]
                    ELSE users
        /\ last' = Ran("set_weekly", g, u, 0, amount,
                       [NoResult EXCEPT !.awarded = (amount >= 0 /\ k \in DOMAIN users)],
                       FALSE, {}, FALSE)
        /\ UNCHANGED <<now, voice_sessions, member_roles, hist, weekly_archives>>

setweekly_fixed_vars ==
    <<member_bot, member_voice, guild_roles, guild_members, guild_channels, config_vars, idle_vars>>

NextSetWeekly ==
    \E g \in GuildIds, u \in UserIds, amount \in (-1)..MaxStoreRowXp :
        SetWeeklyCommand(g, u, amount) /\ UNCHANGED setweekly_fixed_vars

SpecSetWeekly == InitSetWeekly /\ [][NextSetWeekly]_vars

(***************************************************************************)
(* SpecAsync: award handlers of one member interleaving.  A handler runs   *)
(* without a break from its first line to its first await, which is the    *)
(* first role operation or log message of handle_level_up                  *)
(* (xp_manager.py 219-221, 271-273, 277-319); a handler suspended there is *)
(* a record of `tasks`: where it resumes (pc), the target role and the     *)
(* reward roles it read before suspending (to_remove), the role            *)
(* operations it has completed (ops).  A role operation takes effect when  *)
(* its await returns.                                                      *)
(***************************************************************************)
\* a tier map stored in threshold order: level 2 -> role 1, level 3 -> role 2
AsyncTiers == <<Tier(2, 1), Tier(3, 2)>>

\* a handler in handle_level_up, xp_manager.py 277-319, at its first await
LevelUpTask(op, u, user_data, result) ==
    LET new_reward_role_id == get_appropriate_reward_role(result.new_level)
        current_reward_roles == get_user_reward_roles(u)
        task == [op |-> op, user |-> u, user_data |-> user_data,
                 new_level |-> result.new_level, target |-> new_reward_role_id,
                 to_remove |-> {}, ops |-> {}, pc |-> "log"]
    IN  IF new_reward_role_id = NoRole THEN task
        ELSE IF new_reward_role_id \notin guild_roles THEN [task EXCEPT !.pc = "done"]
        ELSE [task EXCEPT !.to_remove = current_reward_roles,
                          !.pc = IF current_reward_roles = {} THEN "add" ELSE "remove"]

InFlight == {i \in DOMAIN tasks : tasks[i].pc # "done"}

\* the record as another handler, suspended since, read it
read_user_data_early(tbl, k) ==
    IF InFlight # {}
    THEN tasks[CHOOSE i \in InFlight : \A j \in InFlight : i <= j].user_data
    ELSE tbl[k]

\* xp_manager.py 187 (and 236): user_data, read in the stretch of the handler
\* that checks the cooldown and writes the award
read_user_data(tbl, k) == tbl[k]

\* lines 205-223 (and 257-275) up to the first await of handle_level_up
SuspendAward(op, g, u, ch, xp_amount, user_data, updated_user) ==
    LET result == AwardResult(xp_amount, user_data, updated_user)
    IN  /\ tasks' = IF result.leveled_up
                    THEN Append(tasks, LevelUpTask(op, u, user_data, result))
                    ELSE tasks
        /\ last' = Ran(op, g, u, ch, IF result.leveled_up THEN result.new_level ELSE 0,
                       result, result.leveled_up, {}, FALSE)
        /\ UNCHANGED <<now, member_roles>>

\* XPManager.award_message_xp, lines 176-221, up to its first await
StartMessageAward(g, u, ch, lim) ==
    LET k == <<g, u>>
        users1 == get_or_create_user(k)
        user_data == read_user_data(users1, k)
    IN  /\ Len(tasks) < lim.tasks
        /\ IF ~MessageEligible(u, ch)
           THEN users' = users /\ tasks' = tasks
                /\ ReturnNone("award_message_xp", g, u, ch)
           ELSE IF CooldownActive(now, user_data.last_message_xp_timestamp,
                                  xp_settings.message_cooldown_seconds)
           THEN users' = users1 /\ tasks' = tasks
                /\ ReturnNone("award_message_xp", g, u, ch)
           ELSE \E xp_amount \in xp_settings.message_xp_min..xp_settings.message_xp_max,
                   db_ok \in lim.db_ok :
                  /\ users1[k].permanent_xp + xp_amount <= lim.xp
                  /\ IF ~db_ok
                     THEN users' = users1 /\ tasks' = tasks
                          /\ ReturnNone("award_message_xp", g, u, ch)
                     ELSE LET users2 == [users1 EXCEPT
                                           ![k] = db_award_message_xp(@, xp_amount, now)]
                          IN  /\ users' = users2
                              /\ voice_sessions' = voice_sessions
                              /\ hist' = [hist EXCEPT !.msg_at = now,
                                                      !.msg_prev = hist.msg_at,
                                                      !.syncs = 0]
                              /\ SuspendAward("award_message_xp", g, u, ch, xp_amount,
                                              user_data, users2[k])

\* XPManager.award_voice_xp, lines 225-273, up to its first await
StartVoiceAward(g, u, ch, lim) ==
    LET k == <<g, u>>
        users1 == get_or_create_user(k)
        user_data == read_user_data(users1, k)
    IN  /\ Len(tasks) < lim.tasks
        /\ IF ~VoiceEligible(u, ch)
           THEN users' = users /\ tasks' = tasks
                /\ ReturnNone("award_voice_xp", g, u, ch)
           ELSE IF CooldownActive(now, user_data.last_voice_xp_timestamp,
                                  xp_settings.voice_tick_interval_seconds)
           THEN users' = users1 /\ tasks' = tasks
                /\ ReturnNone("award_voice_xp", g, u, ch)
           ELSE \E xp_amount \in xp_settings.voice_xp_min..xp_settings.voice_xp_max,
                   db_ok \in lim.db_ok :
                  /\ users1[k].permanent_xp + xp_amount <= lim.xp
                  /\ IF ~db_ok
                     THEN users' = users1 /\ tasks' = tasks
                          /\ ReturnNone("award_voice_xp", g, u, ch)
                     ELSE LET users2 == [users1 EXCEPT
                                           ![k] = db_award_voice_xp(@, xp_amount, now)]
                          IN  /\ users' = users2
                              /\ voice_sessions' = update_voice_tick(k, now)
                              /\ hist' = [hist EXCEPT !.voice_at = now,
                                                      !.voice_prev = hist.voice_at,
                                                      !.syncs = 0]
                              /\ SuspendAward("award_voice_xp", g, u, ch, xp_amount,
                                              user_data, users2[k])

\* lines 294-301: an awaited member.remove_roles returns, with its log line
ResumeRemove(i, role, outcome) ==
    LET task == tasks[i]
        left == task.to_remove \ {role}
    IN  /\ task.pc = "remove"
        /\ role \in task.to_remove
        /\ member_roles' = [member_roles EXCEPT
                              ![task.user] = IF outcome = "ok" THEN @ \ {role} ELSE @]
        /\ tasks' = [tasks EXCEPT
                       ![i].to_remove = left,
                       ![i].ops = @ \cup {RoleOp("remove", role, outcome)},
                       ![i].pc = IF left = {} THEN "add" ELSE "remove"]
        /\ UNCHANGED <<now, users, voice_sessions, last, hist>>

\* lines 303-313: the awaited member.add_roles returns, with its log line
\* and announcement
ResumeAdd(i, outcome) ==
    LET task == tasks[i]
    IN  /\ task.pc = "add"
        /\ member_roles' = [member_roles EXCEPT
                              ![task.user] = IF outcome = "ok" THEN @ \cup {task.target}
                                             ELSE @]
        /\ tasks' = [tasks EXCEPT
                       ![i].ops = @ \cup {RoleOp("add", task.target, outcome)},
                       ![i].pc = "log"]
        /\ UNCHANGED <<now, users, voice_sessions, last, hist>>

\* lines 315-316 and 221-223: log_level_up returns and the handler with it
ResumeLog(i) ==
    /\ tasks[i].pc = "log"
    /\ tasks' = [tasks EXCEPT ![i].pc = "done"]
    /\ UNCHANGED <<now, users, voice_sessions, member_roles, last, hist>>

\* the clock runs over two cooldowns, the first of which is that of a new
\* record
AsyncLimits ==
    [db_ok |-> BOOLEAN, time |-> MaxTime - 2, xp |-> MaxXP, tasks |-> MaxTasks]

InitAsync ==
    /\ now = 0
    /\ users = EmptyTable
    /\ voice_sessions = NoSessions
    /\ guild_roles = RoleIds
    /\ member_roles = [u \in UserIds |-> {}]
    /\ member_bot = [u \in UserIds |-> FALSE]
    /\ member_voice = [u \in UserIds |-> 11]
    /\ weekly_archives = <<>>
    /\ role_rewards = AsyncTiers
    /\ exempt_roles = {4}
    /\ message_whitelist = {1}
    /\ voice_whitelist = {11}
    /\ xp_settings = SmallSettings
    /\ level_formula = SmallFormula
    /\ InitIdle
    /\ InitGuild

async_fixed_vars == <<static_vars, scn_pc, scn_log, fn_in, fn_out>>

NextAsync ==
    \/ Tick(AsyncLimits.time) /\ UNCHANGED fixed_vars
    \/ \E g \in GuildIds, u \in UserIds, ch \in TextChannels :
         StartMessageAward(g, u, ch, AsyncLimits) /\ UNCHANGED async_fixed_vars
    \/ \E g \in GuildIds, u \in UserIds, ch \in VoiceChannels :
         StartVoiceAward(g, u, ch, AsyncLimits) /\ UNCHANGED async_fixed_vars
    \/ \E i \in DOMAIN tasks, role \in RoleIds, outcome \in Outcomes :
         ResumeRemove(i, role, outcome) /\ UNCHANGED async_fixed_vars
    \/ \E i \in DOMAIN tasks, outcome \in Outcomes :
         ResumeAdd(i, outcome) /\ UNCHANGED async_fixed_vars
    \/ \E i \in DOMAIN tasks :
         ResumeLog(i) /\ UNCHANGED async_fixed_vars

SpecAsync == InitAsync /\ [][NextAsync]_vars

\* the event loop runs every handler that is ready, and the clock advances
SpecAsyncFair == SpecAsync /\ WF_vars(NextAsync)

(***************************************************************************)
(* SpecSweep: passes of the voice sweep (cogs/voice_tracker.py 91-153)     *)
(* over the sessions of two members, interleaved with the voice events of  *)
(* those members and with the cancellation of the sweep.  A pass is        *)
(* suspended inside award_voice_xp, at the awaits of handle_level_up, and  *)
(* in asyncio.sleep(0.1) after a session whose tick was due; `tasks` holds *)
(* the suspended pass: the session row it is at, the rows of its list      *)
(* still to come (pending), the clock it read and the award's result.  A   *)
(* pass takes well under a second: the clock advances between passes.      *)
(* Member 1 starts with no tier role or with one an admin gave them;       *)
(* member 2 holds an exempt role.                                          *)
(***************************************************************************)
SweepUsers == {1, 2}

SweepSettings == [SmallSettings EXCEPT !.voice_tick_interval_seconds = 30]

SweepLimits ==
    [db_ok |-> BOOLEAN, time |-> SweepEpoch + MaxSweepTicks * SweepStep,
     xp |-> MaxXP \div 2, raising |-> {}, log |-> FALSE]

\* database.py 468-490: the rows of a guild, in the order the SELECT
\* returns them (it has no ORDER BY)
get_active_voice_sessions(guild_id) ==
    LET rows == {row \in voice_sessions : row.guild_id = guild_id}
    IN  {order \in [1..Cardinality(rows) -> rows] :
           \A i, j \in DOMAIN order : order[i] = order[j] => i = j}

\* database.py 492-502 on a table of session rows
update_voice_tick_in(sessions, k, at) ==
    {IF <<row.guild_id, row.user_id>> = k THEN [row EXCEPT !.last_xp_tick = at]
     ELSE row : row \in sessions}

\* what a pass did with one row of its list
PassEntry(user, outcome, snapshot) ==
    [user |-> user, outcome |-> outcome, snapshot |-> snapshot]

Seen(entry, s) == [s EXCEPT !.seen = <<entry>> \o @]

\* the checks of the rows without the handler of line 148: an error raised
\* for a row ends the pass
RECURSIVE SkipSessionsUnguarded(_, _, _)
SkipSessionsUnguarded(sessions, pending, raising) ==
    IF pending = <<>> THEN [sessions |-> sessions, pending |-> pending, seen |-> <<>>]
    ELSE LET session == Head(pending)
             k == <<session.guild_id, session.user_id>>
             raised == [sessions |-> sessions, pending |-> <<>>,
                        seen |-> <<PassEntry(session.user_id, "raised", {})>>]
         IN  IF StaleSession(session)
             THEN IF session.user_id \in raising THEN raised
                  ELSE Seen(PassEntry(session.user_id, "ended", {}),
                            SkipSessionsUnguarded({row \in sessions :
                                                     <<row.guild_id, row.user_id>> # k},
                                                  Tail(pending), raising))
             ELSE IF now - session.last_xp_tick >= xp_settings.voice_tick_interval_seconds
             THEN IF session.user_id \in raising THEN raised
                  ELSE [sessions |-> sessions, pending |-> pending, seen |-> <<>>]
             ELSE Seen(PassEntry(session.user_id, "not_due", {}),
                       SkipSessionsUnguarded(sessions, Tail(pending), raising))

\* voice_tracker.py 105-129 and 148-150: the rows a pass goes through without
\* an award, ending the stored session of a stale row; the first database
\* call made for a row of a member in `raising` raises (sqlite3.connect,
\* database.py 450 and 77, is outside the try of its method), the handler of
\* line 148 logs it and the loop continues with the next row.  The result is
\* the table after that, the list from the first row whose tick is due, and
\* what was done with the rows before it
RECURSIVE SkipSessions(_, _, _)
SkipSessions(sessions, pending, raising) ==
    IF pending = <<>> THEN [sessions |-> sessions, pending |-> pending, seen |-> <<>>]
    ELSE LET session == Head(pending)
             k == <<session.guild_id, session.user_id>>
         IN  IF StaleSession(session)
             THEN IF session.user_id \in raising
                  THEN Seen(PassEntry(session.user_id, "raised", {}),
                            SkipSessions(sessions, Tail(pending), raising))
                  ELSE Seen(PassEntry(session.user_id, "ended", {}),
                            SkipSessions({row \in sessions :
                                            <<row.guild_id, row.user_id>> # k},
                                         Tail(pending), raising))
             ELSE IF now - session.last_xp_tick >= xp_settings.voice_tick_interval_seconds
             THEN IF session.user_id \in raising
                  THEN Seen(PassEntry(session.user_id, "raised", {}),
                            SkipSessions(sessions, Tail(pending), raising))
                  ELSE [sessions |-> sessions, pending |-> pending, seen |-> <<>>]
             ELSE Seen(PassEntry(session.user_id, "not_due", {}),
                       SkipSessions(sessions, Tail(pending), raising))

\* the pass suspended: in handle_level_up (level_up.pc) or in the sleep
SweepTask(level_up, session, pending, current_time, result) ==
    level_up @@ [session |-> session, pending |-> pending,
                 current_time |-> current_time, result |-> result]

NoLevelUp(u, user_data) ==
    [op |-> "voice_tick", user |-> u, user_data |-> user_data, new_level |-> 0,
     target |-> NoRole, to_remove |-> {}, ops |-> {}, pc |-> "sleep"]

\* voice_tracker.py 133-143: a result came back; the tick is stamped again
\* and the minutes since the row's tick are added to voice_time
track_award(tbl, sessions, k, current_time, session) ==
    [users |-> [tbl EXCEPT ![k].voice_time =
                                @ + MinutesPassed(current_time, session.last_xp_tick)],
     sessions |-> update_voice_tick_in(sessions, k, now)]

\* voice_tracker.py 105-150: the pass from the head of `pending` to its next
\* suspension or to its end; `seen` is what the pass did before
SweepRun(pending, lim, seen) ==
    \E raising \in SUBSET (lim.raising \cap {pending[i].user_id : i \in DOMAIN pending}) :
    LET s == SkipSessions(voice_sessions, pending, raising)
        logged(entries) ==
            scn_log' = IF lim.log THEN seen \o s.seen \o entries ELSE scn_log
    IN  IF s.pending = <<>>
        THEN /\ tasks' = <<>>
             /\ voice_sessions' = s.sessions
             /\ users' = users
             /\ last' = Ran("voice_pass_end", 0, 0, 0, 0, NoResult, FALSE, {}, FALSE)
             /\ logged(<<>>)
             /\ UNCHANGED <<now, member_roles, hist>>
        ELSE LET session == Head(s.pending)
                 g == session.guild_id
                 u == session.user_id
                 ch == session.channel_id
                 k == <<g, u>>
                 users1 == get_or_create_user(k)
                 user_data == users1[k]
                 none(tbl) ==
                     /\ users' = tbl
                     /\ voice_sessions' = s.sessions
                     /\ tasks' = <<SweepTask(NoLevelUp(u, user_data), session,
                                             Tail(s.pending), now, NoResult)>>
                     /\ last' = Ran("voice_tick", g, u, ch, 0, NoResult, FALSE, {}, FALSE)
             IN  /\ UNCHANGED <<now, member_roles, hist>>
                 /\ logged(<<PassEntry(u, "due", {})>>)
                 /\ IF ~VoiceEligible(u, ch) THEN none(users)
                    ELSE IF CooldownActive(now, user_data.last_voice_xp_timestamp,
                                           xp_settings.voice_tick_interval_seconds)
                    THEN none(users1)
                    ELSE \E xp_amount \in xp_settings.voice_xp_min..xp_settings.voice_xp_max,
                            db_ok \in lim.db_ok :
                      /\ user_data.permanent_xp + xp_amount <= lim.xp
                      /\ IF ~db_ok THEN none(users1)
                         ELSE LET users2 == [users1 EXCEPT
                                               ![k] = db_award_voice_xp(@, xp_amount, now)]
                                  sessions2 == update_voice_tick_in(s.sessions, k, now)
                                  result == AwardResult(xp_amount, user_data, users2[k])
                                  level_up == LevelUpTask("voice_tick", u, user_data, result)
                                  tracked == track_award(users2, sessions2, k, now, session)
                              IN  IF result.leveled_up /\ level_up.pc # "done"
                                  THEN /\ users' = users2
                                       /\ voice_sessions' = sessions2
                                       /\ tasks' = <<SweepTask(level_up, session,
                                                               Tail(s.pending), now, result)>>
                                       /\ last' = Ran("voice_tick_award", g, u, ch, 0, result,
                                                      TRUE, {}, FALSE)
                                  ELSE /\ users' = tracked.users
                                       /\ voice_sessions' = tracked.sessions
                                       /\ tasks' = <<SweepTask(NoLevelUp(u, user_data), session,
                                                               Tail(s.pending), now, result)>>
                                       /\ last' = Ran("voice_tick", g, u, ch, 0, result,
                                                      result.leveled_up, {}, FALSE)

\* voice_tracker.py 91-105: a pass starts and reads the session list of the guild
StartPass(guild_id, active_sessions, lim) ==
    /\ tasks = <<>>
    /\ active_sessions \in get_active_voice_sessions(guild_id)
    /\ SweepRun(active_sessions, lim,
                <<PassEntry(0, "start",
                            {active_sessions[i].user_id : i \in DOMAIN active_sessions})>>)

\* voice_tracker.py 145-146: asyncio.sleep(0.1) returns
WakePass(lim) ==
    /\ tasks # <<>>
    /\ tasks[1].pc = "sleep"
    /\ SweepRun(tasks[1].pending, lim, scn_log)

\* xp_manager.py 315-316, 275 and voice_tracker.py 129-146: log_level_up
\* returns, award_voice_xp returns its result and the tracker records it
ReturnToPass ==
    /\ tasks # <<>>
    /\ tasks[1].pc = "log"
    /\ LET task == tasks[1]
           k == <<task.session.guild_id, task.user>>
           tracked == track_award(users, voice_sessions, k, task.current_time,
                                  task.session)
       IN  /\ users' = tracked.users
           /\ voice_sessions' = tracked.sessions
           /\ tasks' = <<[task EXCEPT !.pc = "sleep"]>>
           /\ last' = Ran("voice_tick", k[1], k[2], task.session.channel_id, 0,
                          task.result, TRUE, task.ops, TRUE)
    /\ UNCHANGED <<now, member_roles, hist>>

\* VoiceTracker.cog_unload, voice_tracker.py 17-19: the suspended pass is
\* cancelled; CancelledError is no Exception, no handler of the pass or of
\* the award catches it
CancelPass ==
    /\ tasks # <<>>
    /\ tasks' = <<>>
    /\ last' = Ran("cog_unload", tasks[1].session.guild_id, tasks[1].user,
                   tasks[1].session.channel_id, 0, tasks[1].result, FALSE, {}, FALSE)
    /\ UNCHANGED <<now, users, voice_sessions, member_roles, hist>>

\* the wait of the loop between two passes
TickSweep ==
    /\ tasks = <<>>
    /\ now + SweepStep <= SweepLimits.time
    /\ now' = now + SweepStep
    /\ UNCHANGED <<users, voice_sessions, member_roles, last, hist>>

InitSweep ==
    /\ now = SweepEpoch
    /\ users = EmptyTable
    /\ voice_sessions = {VoiceSession(<<1, u>>, 11, SweepEpoch) : u \in SweepUsers}
    /\ guild_roles = RoleIds
    /\ exempt_roles = {4}
    /\ \E held \in {{}, {2}} :
         member_roles = [u \in SweepUsers |-> IF u = 1 THEN held ELSE exempt_roles]
    /\ member_bot = [u \in SweepUsers |-> FALSE]
    /\ member_voice = [u \in SweepUsers |-> 11]
    /\ weekly_archives = <<>>
    /\ role_rewards = AsyncTiers
    /\ message_whitelist = {1}
    /\ voice_whitelist = VoiceChannels
    /\ xp_settings = SweepSettings
    /\ level_formula = SmallFormula
    /\ InitIdle
    /\ InitGuild

sweep_fixed_vars ==
    <<member_bot, weekly_archives, guild_roles, guild_members, guild_channels, config_vars, scn_pc, scn_log, fn_in, fn_out>>

NextSweep ==
    \/ TickSweep /\ UNCHANGED <<sweep_fixed_vars, member_voice, tasks>>
    \/ \E g \in GuildIds, u \in SweepUsers, after \in VoiceChannels \cup {0} :
         OnVoiceStateUpdate(g, u, after) /\ UNCHANGED <<sweep_fixed_vars, tasks>>
    \/ \E g \in GuildIds :
         \E active_sessions \in get_active_voice_sessions(g) :
           StartPass(g, active_sessions, SweepLimits)
             /\ UNCHANGED <<sweep_fixed_vars, member_voice>>
    \/ WakePass(SweepLimits) /\ UNCHANGED <<sweep_fixed_vars, member_voice>>
    \/ \E role \in RoleIds, outcome \in Outcomes :
         tasks # <<>> /\ ResumeRemove(1, role, outcome)
           /\ UNCHANGED <<sweep_fixed_vars, member_voice>>
    \/ \E outcome \in Outcomes :
         tasks # <<>> /\ ResumeAdd(1, outcome)
           /\ UNCHANGED <<sweep_fixed_vars, member_voice>>
    \/ ReturnToPass /\ UNCHANGED <<sweep_fixed_vars, member_voice>>
    \/ CancelPass /\ UNCHANGED <<sweep_fixed_vars, member_voice>>

SpecSweep == InitSweep /\ [][NextSweep]_vars

(***************************************************************************)
(* SpecPass: passes of the voice sweep at one reading of the clock, over   *)
(* sessions that go stale in each of the three ways of voice_tracker.py    *)
(* 107-123: a member leaves the guild, a channel is deleted, a member      *)
(* changes channel.  The first database call made for a row may raise.     *)
(* scn_log holds what the running pass (or the last one) did: its first    *)
(* entry carries the members of the list the pass read, the others the row *)
(* handled and how.  No award reaches a level-up: a pass is suspended in   *)
(* asyncio.sleep only.                                                     *)
(***************************************************************************)
PassLimits ==
    [db_ok |-> {TRUE}, time |-> SweepEpoch + SweepStep, xp |-> MaxXP \div 4,
     raising |-> SweepUsers, log |-> TRUE]

\* the member leaves the guild (the bot has no listener for it); discord
\* drops their voice state
MemberRemoved(u) ==
    /\ u \in guild_members
    /\ guild_members' = guild_members \ {u}
    /\ member_voice' = [member_voice EXCEPT ![u] = 0]
    /\ last' = NoRun
    /\ UNCHANGED <<now, users, voice_sessions, member_roles, hist, guild_channels>>

\* a voice channel is deleted (the bot has no listener for it); the members
\* in it are disconnected
ChannelDeleted(channel) ==
    /\ channel \in guild_channels
    /\ guild_channels' = guild_channels \ {channel}
    /\ member_voice' = [u \in DOMAIN member_voice |->
                          IF member_voice[u] = channel THEN 0 ELSE member_voice[u]]
    /\ last' = NoRun
    /\ UNCHANGED <<now, users, voice_sessions, member_roles, hist, guild_members>>

InitPass ==
    /\ now = SweepEpoch + SweepStep
    /\ users = EmptyTable
    /\ voice_sessions = {VoiceSession(<<1, u>>, 11, SweepEpoch) : u \in SweepUsers}
    /\ guild_roles = RoleIds
    /\ exempt_roles = {4}
    /\ member_roles = [u \in SweepUsers |-> {}]
    /\ member_bot = [u \in SweepUsers |-> FALSE]
    /\ member_voice = [u \in SweepUsers |-> 11]
    /\ weekly_archives = <<>>
    /\ role_rewards = AsyncTiers
    /\ message_whitelist = {1}
    /\ voice_whitelist = VoiceChannels
    /\ xp_settings = SweepSettings
    /\ level_formula = SmallFormula
    /\ InitIdle
    /\ InitGuild

pass_fixed_vars ==
    <<member_bot, weekly_archives, guild_roles, config_vars, scn_pc, fn_in, fn_out>>

NextPass ==
    \/ \E g \in GuildIds, u \in guild_members,
          after \in (VoiceChannels \cap guild_channels) \cup {0} :
         OnVoiceStateUpdate(g, u, after)
           /\ UNCHANGED <<pass_fixed_vars, guild_members, guild_channels, tasks, scn_log>>
    \/ \E u \in SweepUsers :
         MemberRemoved(u) /\ UNCHANGED <<pass_fixed_vars, tasks, scn_log>>
    \/ \E channel \in VoiceChannels :
         ChannelDeleted(channel) /\ UNCHANGED <<pass_fixed_vars, tasks, scn_log>>
    \/ \E g \in GuildIds :
         \E active_sessions \in get_active_voice_sessions(g) :
           StartPass(g, active_sessions, PassLimits)
             /\ UNCHANGED <<pass_fixed_vars, guild_members, guild_channels, member_voice>>
    \/ WakePass(PassLimits)
         /\ UNCHANGED <<pass_fixed_vars, guild_members, guild_channels, member_voice>>

SpecPass == InitPass /\ [][NextPass]_vars

(***************************************************************************)
(* Properties of the award handlers, stated for Spec.                      *)
(***************************************************************************)
LastKey == <<last.guild, last.user>>

LastIsAward == last.op \in {"award_message_xp", "award_voice_xp"}

\* C1: after any successful message or voice award, the level stored in the
\* user's record equals level_for(total_xp) of that record, over any
\* sequence of awards from a freshly created record.
C1_StoredLevelFollowsXp ==
    (LastIsAward /\ last.ret.awarded) =>
        users[LastKey].level = calculate_level(users[LastKey].permanent_xp)

\* C2: with message awards handled one after another, any two successful
\* message awards are at least message_cooldown_seconds apart, and a call
\* made inside the cooldown window of the previous successful award is not
\* awarded.
C2_CooldownIdempotence ==
    (last.op = "award_message_xp" /\ last.ret.awarded /\ hist.msg_prev # -1) =>
        /\ hist.msg_at - hist.msg_prev >= xp_settings.message_cooldown_seconds
        /\ last.at - hist.msg_prev >= xp_settings.message_cooldown_seconds

C2_TwoAwards ==
    /\ last.op = "award_message_xp"
    /\ last.ret.awarded
    /\ hist.msg_prev # -1
    /\ users[LastKey].permanent_xp > last.ret.xp_awarded

\* C4: an award reports leveled_up and reconciles roles if and only if it
\* raised the user's level, level_for(total before) < level_for(total
\* after); an award that stays inside a level never reports a level-up.
C4_LevelUpIffLevelRaised ==
    (LastIsAward /\ last.ret.awarded) =>
        LET raised == calculate_level(last.ret.total_xp - last.ret.xp_awarded)
                        < calculate_level(last.ret.total_xp)
        IN  /\ last.ret.leveled_up <=> raised
            /\ last.reconciled <=> raised

NotEligibleFor(u, ch, whitelist) ==
    \/ member_bot[u]
    \/ member_roles[u] \cap exempt_roles # {}
    \/ ch \notin whitelist

SilentNoOp ==
    /\ users' = users
    /\ voice_sessions' = voice_sessions
    /\ member_roles' = member_roles
    /\ last'.ret = NoResult
    /\ last'.ops = {}
    /\ ~last'.reconciled

\* C10: an award call for a bot, for a holder of an exempt role, or in a
\* channel outside the handler's whitelist returns nothing and changes no
\* state: no record is created, no XP, timestamp or counter changes, no role
\* operation is issued.
C10_NotEligibleIsSilentNoOp ==
    [][ /\ \A g \in GuildIds, u \in UserIds, ch \in TextChannels :
             (AwardMessageXP(g, u, ch, AwardLimits) /\ NotEligibleFor(u, ch, message_whitelist))
                 => SilentNoOp
        /\ \A g \in GuildIds, u \in UserIds, ch \in VoiceChannels :
             (AwardVoiceXP(g, u, ch, AwardLimits) /\ NotEligibleFor(u, ch, voice_whitelist))
                 => SilentNoOp ]_vars

C10_BotCalledOnFreshTable ==
    /\ last.op = "award_message_xp"
    /\ member_bot[last.user]
    /\ last.channel \in message_whitelist
    /\ now >= xp_settings.message_cooldown_seconds
    /\ last.ret = NoResult
    /\ users = EmptyTable

(***************************************************************************)
(* Properties of role reconciliation, stated for SpecRoles.                *)
(***************************************************************************)
\* the role of the greatest threshold <= level, NoRole when there is none
TierRoleFor(rewards, level) ==
    LET qualifying == {i \in DOMAIN rewards : IntOfStr(rewards[i].key) <= level}
    IN  IF qualifying = {} THEN NoRole
        ELSE rewards[CHOOSE i \in qualifying :
                        \A j \in qualifying :
                            IntOfStr(rewards[j].key) <= IntOfStr(rewards[i].key)].role

HoldsExactlyTierFor(u, level) ==
    get_user_reward_roles(u) =
        IF TierRoleFor(role_rewards, level) = NoRole THEN {}
        ELSE {TierRoleFor(role_rewards, level)}

\* C5: after handle_level_up completes with every role operation succeeding,
\* the user holds at most one tier role, and a held one is the role of the
\* greatest threshold <= new_level, whatever tier roles were held before
\* and also when no threshold is <= new_level (every tier role existing in
\* the guild).
C5_ExactlyOneTierAfterLevelUp ==
    (last.op = "award_message_xp" /\ last.reconciled /\ AllOk(last.ops)
       /\ RewardRoleIds \subseteq guild_roles) =>
        /\ Cardinality(get_user_reward_roles(last.user)) <= 1
        /\ \A r \in get_user_reward_roles(last.user) :
               r = TierRoleFor(role_rewards, last.arg)

\* C6: after sync_user_roles completes with every role operation
\* succeeding, the tier roles the user holds are exactly the role of the
\* greatest threshold <= stored level, and none when the stored level is
\* below every threshold (every tier role existing in the guild).
C6_SyncLeavesTierOfStoredLevel ==
    (last.op \in {"sync", "set_level", "set_xp"} /\ last.reconciled
       /\ LastKey \in DOMAIN users /\ AllOk(last.ops)
       /\ RewardRoleIds \subseteq guild_roles) =>
        HoldsExactlyTierFor(last.user, users[LastKey].level)

\* C7: running sync_user_roles twice in a row, all role operations
\* succeeding and stored level and tier map unchanged, leaves the same held
\* roles as running it once, from any set of held tier roles.
C7_SyncIdempotent ==
    hist.syncs = 2 => member_roles[last.user] = hist.synced_roles

C7_SyncedTwiceWithRole ==
    /\ hist.syncs = 2
    /\ last.op = "sync"
    /\ last.ops # {}
    /\ get_user_reward_roles(last.user) # {}

(***************************************************************************)
(* The two concrete scenarios and the tier lookup.                         *)
(***************************************************************************)
ScnOutcome(first, second, third) ==
    /\ (Len(scn_log) >= 1 /\ first) =>
           scn_log[1].ret.awarded /\ scn_log[1].ret.xp_awarded = 25
    /\ (Len(scn_log) >= 2 /\ second) => ~scn_log[2].ret.awarded
    /\ (Len(scn_log) >= 3 /\ third) => scn_log[3].ret.awarded

ScnAllOk == \A i \in DOMAIN scn_log : AllOk(scn_log[i].ops)

\* C8: with tier map {5: roleA, 10: roleB} and every role operation
\* succeeding, reconciling at level 7 leaves roleA only; the level-up to 12
\* removes roleA and adds roleB; set_level(8) with its sync removes roleB
\* and adds roleA; one of the two roles is held after each step.
C8_TierScenario ==
    (scn_pc \in {"levelup12", "setlevel8", "done"} /\ ScnAllOk) =>
        /\ Len(scn_log) >= 1 => scn_log[1].held = {1}
        /\ Len(scn_log) >= 2 =>
               /\ scn_log[2].held = {2}
               /\ RoleOp("remove", 1, "ok") \in scn_log[2].ops
               /\ RoleOp("add", 2, "ok") \in scn_log[2].ops
        /\ Len(scn_log) >= 3 =>
               /\ scn_log[3].held = {1}
               /\ RoleOp("remove", 2, "ok") \in scn_log[3].ops
               /\ RoleOp("add", 1, "ok") \in scn_log[3].ops
               /\ users[<<1, 1>>].level = 8

C8_ScenarioCompleted ==
    /\ scn_pc = "done"
    /\ Len(scn_log) = 3
    /\ ScnAllOk
    /\ member_roles[1] = {1}

\* C9: get_appropriate_reward_role returns the role of the greatest
\* threshold <= level, whatever the storage order and spacing of the
\* thresholds, and none when every threshold exceeds the level.
C9_TierLookup ==
    fn_out # <<>> => fn_out[1] = TierRoleFor(role_rewards, fn_in[1])

C9_OutOfOrderLookup ==
    /\ fn_out # <<>>
    /\ fn_out[1] # NoRole
    /\ Len(role_rewards) = 3
    /\ IntOfStr(role_rewards[1].key) > IntOfStr(role_rewards[2].key)
    /\ IntOfStr(role_rewards[3].key) > IntOfStr(role_rewards[1].key)
    /\ fn_out[1] = role_rewards[1].role
    /\ role_rewards[1].role # role_rewards[3].role

(***************************************************************************)
(* The write of a message award, stated for SpecRoles, where setxp makes   *)
(* total and weekly XP differ.                                             *)
(***************************************************************************)
\* C11: a successful message award adds one xp_delta, within
\* message_xp_min..message_xp_max, to both total_xp and weekly_xp, stamps
\* last_message_award_at with the time of the write, and returns xp_awarded
\* = xp_delta with total_xp and weekly_xp as stored after the write.
C11_MessageAwardWrite ==
    [][ \A g \in GuildIds, u \in UserIds, ch \in TextChannels :
          (AwardMessageXP(g, u, ch, AwardLimits) /\ last'.ret.awarded) =>
              LET k == <<g, u>>
                  xp_delta == last'.ret.xp_awarded
              IN  /\ xp_delta >= xp_settings.message_xp_min
                  /\ xp_delta <= xp_settings.message_xp_max
                  /\ users'[k].permanent_xp = RowBefore(k).permanent_xp + xp_delta
                  /\ users'[k].weekly_xp = RowBefore(k).weekly_xp + xp_delta
                  /\ users'[k].last_message_xp_timestamp = now'
                  /\ now' >= last'.at
                  /\ last'.ret.total_xp = users'[k].permanent_xp
                  /\ last'.ret.weekly_xp = users'[k].weekly_xp ]_vars

C11_AwardedAfterSetXp ==
    /\ last.op = "award_message_xp"
    /\ last.ret.awarded
    /\ last.ret.xp_awarded = xp_settings.message_xp_max
    /\ last.ret.total_xp = users[LastKey].permanent_xp
    /\ last.ret.weekly_xp > last.ret.total_xp
    /\ users[LastKey].last_message_xp_timestamp = now

(***************************************************************************)
(* Properties of the voice tracker, stated for SpecVoice.                  *)
(***************************************************************************)
\* C12: whatever voice joins, moves, leaves, sweep passes and direct
\* award_voice_xp calls happen, two successful voice awards to a user are at
\* least voice_tick_interval_seconds apart; a session ended, restarted or
\* moved (its last tick back at 0) gets no second award inside the interval.
C12_VoiceAwardsSpaced ==
    (last.op \in {"award_voice_xp", "voice_tick"} /\ last.ret.awarded
       /\ hist.voice_prev # -1) =>
        /\ hist.voice_at - hist.voice_prev >= xp_settings.voice_tick_interval_seconds
        /\ last.at - hist.voice_prev >= xp_settings.voice_tick_interval_seconds

C12_AwardAfterRestart ==
    /\ last.op = "voice_tick"
    /\ last.ret.awarded
    /\ hist.voice_prev # -1
    /\ \E row \in voice_sessions : row.join_time > hist.voice_prev

\* C18: a (tenant, user) pair never has more than one active voice session;
\* starting a session for a user who has one replaces it: afterwards the
\* user's only session is the new one, in the new channel.
C18_OneSessionPerUser ==
    /\ \A r1, r2 \in voice_sessions :
           (r1.guild_id = r2.guild_id /\ r1.user_id = r2.user_id) => r1 = r2
    /\ (last.op \in {"voice_join", "voice_move"} /\ last.channel \in voice_whitelist) =>
           SessionsOf(LastKey) = {VoiceSession(LastKey, last.channel, last.at)}

C18_SessionReplaced ==
    /\ last.op = "voice_join"
    /\ last.arg = 1
    /\ last.at > 0
    /\ SessionsOf(LastKey) = {VoiceSession(LastKey, last.channel, last.at)}

(***************************************************************************)
(* Properties of the anchor curve, stated for SpecCurve and SpecRoundTrip. *)
(***************************************************************************)
\* C13: in anchor mode, for every anchor configuration (xp falling with
\* level, equal levels, the fallback curve) and all 0 <= xp1 < xp2,
\* calculate_level(xp1) <= calculate_level(xp2).
C13_MonotonicStaircase ==
    fn_out # <<>> =>
        \A xp1, xp2 \in CurveXps :
            xp1 < xp2 => fn_out[1].levels[xp1] <= fn_out[1].levels[xp2]

C13_FallingAnchorsClimb ==
    /\ fn_out # <<>>
    /\ Len(level_formula.anchors) = 2
    /\ level_formula.anchors[1].level > 1
    /\ level_formula.anchors[1].level < level_formula.anchors[2].level
    /\ level_formula.anchors[1].xp > level_formula.anchors[2].xp
    /\ level_formula.anchors[2].xp > 0
    /\ fn_out[1].levels[0] = 1
    /\ fn_out[1].levels[MaxCurveXp] > level_formula.anchors[2].level

\* C14: in anchor mode, for every xp >= 0,
\* xp_for(level_for(xp)) <= xp < xp_for(level_for(xp) + 1), also at and
\* above the threshold of the highest level of the table.
C14_LevelBracketsXp ==
    fn_out # <<>> =>
        \A xp \in CurveXps :
            fn_out[1].lower[xp] <= xp /\ xp < fn_out[1].upper[xp]

\* C15: for every level L of the threshold table,
\* calculate_level(calculate_xp_for_level(L)) = L and, when that XP is
\* positive, calculate_level of one XP less is below L, also when
\* neighbouring levels have equal thresholds.
C15_CurveRoundTrip ==
    fn_out # <<>> =>
        /\ fn_out[1].back = fn_in[1]
        /\ fn_out[1].xp > 0 => fn_out[1].below < fn_in[1]

\* C16: in exponential mode calculate_level(xp) is the largest level L with
\* calculate_xp_for_level(L) <= xp (the XP of a level being truncated to an
\* integer, 0 for level 1): the XP of the level returned is at most xp and
\* the XP of the next level is above xp; and the level is 1 when
\* xp < base_xp.
C16_ExponentialInverse ==
    fn_out # <<>> =>
        /\ fn_out[1].lower <= fn_in[1]
        /\ fn_in[1] < fn_out[1].upper
        /\ fn_in[1] < level_formula.base_xp => fn_out[1].level = 1

(***************************************************************************)
(* Properties of the resets, stated for SpecStore.                         *)
(***************************************************************************)
\* C17: a successful reset_weekly_leaderboard(tenant) leaves total_xp, level
\* and both award timestamps of every record as they were, sets weekly_xp,
\* voice minutes and message_count to 0 for every record of that tenant and
\* changes them for no record of another tenant, creates and removes no
\* record, and archives exactly the (user, weekly_xp) pairs of the tenant
\* whose weekly_xp was above 0 just before the reset.
C17_WeeklyResetFrame ==
    [][ \A guild_id \in StoreGuilds :
          ResetWeeklyLeaderboard(guild_id, TRUE) =>
            LET archived ==
                    IF Len(weekly_archives') = Len(weekly_archives) THEN {}
                    ELSE {[guild_id |-> weekly_archives'[Len(weekly_archives')].guild_id,
                           user_id |-> a.user_id, weekly_xp |-> a.weekly_xp] :
                             a \in weekly_archives'[Len(weekly_archives')].archive_data}
            IN  /\ DOMAIN users' = DOMAIN users
                /\ \A k \in DOMAIN users :
                     /\ users'[k].permanent_xp = users[k].permanent_xp
                     /\ users'[k].level = users[k].level
                     /\ users'[k].last_message_xp_timestamp
                          = users[k].last_message_xp_timestamp
                     /\ users'[k].last_voice_xp_timestamp
                          = users[k].last_voice_xp_timestamp
                     /\ k[1] = guild_id =>
                          /\ users'[k].weekly_xp = 0
                          /\ users'[k].voice_time = 0
                          /\ users'[k].message_count = 0
                     /\ k[1] # guild_id => users'[k] = users[k]
                /\ Len(weekly_archives') <= Len(weekly_archives) + 1
                /\ SubSeq(weekly_archives', 1, Len(weekly_archives)) = weekly_archives
                /\ archived =
                     {[guild_id |-> guild_id, user_id |-> k[2],
                       weekly_xp |-> users[k].weekly_xp] :
                         k \in {key \in DOMAIN users :
                                  key[1] = guild_id /\ users[key].weekly_xp > 0}} ]_vars

\* a reset of guild 1 that archived one of its two users and left guild 2's
\* weekly XP standing
C17_ArchivedOneOfTwo ==
    /\ weekly_archives # <<>>
    /\ weekly_archives[Len(weekly_archives)].guild_id = 1
    /\ Cardinality(weekly_archives[Len(weekly_archives)].archive_data) = 1
    /\ {<<1, 1>>, <<1, 2>>, <<2, 1>>} \subseteq DOMAIN users
    /\ users[<<1, 1>>].level > 1
    /\ users[<<1, 1>>].weekly_xp = 0
    /\ users[<<1, 2>>].weekly_xp = 0
    /\ users[<<1, 2>>].last_voice_xp_timestamp > 0
    /\ users[<<2, 1>>].weekly_xp > 0

\* C20: reset_user_all on an existing record sets total_xp, weekly_xp, voice
\* minutes, message_count and both award timestamps to 0 and level to 1,
\* keeps the record and leaves every other record unchanged; and no
\* operation ever removes a user record.
C20_ResetUserAllInPlace ==
    [][ /\ DOMAIN users \subseteq DOMAIN users'
        /\ \A k \in StoreKeys :
             (ResetUserAll(k, TRUE) /\ k \in DOMAIN users) =>
                /\ DOMAIN users' = DOMAIN users
                /\ users'[k] = NewUser
                /\ \A other \in DOMAIN users \ {k} : users'[other] = users[other] ]_vars

\* a record was reset (every record is created by an award, which stamps it,
\* and only reset_user_all takes a stamp back to 0) after its weekly XP had
\* been archived, while another record of the tenant kept its XP
C20_ResetARecordInUse ==
    /\ {<<1, 1>>, <<1, 2>>} \subseteq DOMAIN users
    /\ users[<<1, 1>>] = NewUser
    /\ users[<<1, 2>>].permanent_xp > 0
    /\ users[<<1, 2>>].last_message_xp_timestamp = now
    /\ weekly_archives # <<>>
    /\ \E a \in weekly_archives[1].archive_data : a.user_id = 1

(***************************************************************************)
(* Failures of role operations during a level-up, stated for SpecRoles.    *)
(***************************************************************************)
\* C19: a role operation that fails during the reconciliation of a level-up
\* is not fatal, whatever the outcome of resolving or changing the reward
\* role: the award returns its result with leveled_up true, the level-up log
\* record is emitted, and, the role of the new level being in the guild, the
\* add was attempted and so was the removal of every other tier role the
\* member still holds.
C19_RoleFailureNonFatal ==
    (LastIsAward /\ last.ret.awarded /\ last.ret.leveled_up) =>
        LET target == get_appropriate_reward_role(last.ret.new_level)
        IN  /\ last.reconciled
            /\ last.logged
            /\ (target # NoRole /\ target \in guild_roles) =>
                 /\ \E o \in last.ops : o.kind = "add" /\ o.role = target
                 /\ \A r \in get_user_reward_roles(last.user) \ {target} :
                        RoleOp("remove", r, "failed") \in last.ops

(***************************************************************************)
(* Failed award writes, stated for SpecVoice.                              *)
(***************************************************************************)
FailingLimits == [AwardLimits EXCEPT !.db_ok = {FALSE}]

\* the call gets as far as the store's write
VoiceWriteAttempted(g, u, ch) ==
    /\ VoiceEligible(u, ch)
    /\ ~CooldownActive(now, RowBefore(<<g, u>>).last_voice_xp_timestamp,
                       xp_settings.voice_tick_interval_seconds)

SweepWriteAttempted(session) ==
    /\ member_voice[session.user_id] = session.channel_id
    /\ now - session.last_xp_tick >= xp_settings.voice_tick_interval_seconds
    /\ VoiceWriteAttempted(session.guild_id, session.user_id, session.channel_id)

NothingAwarded ==
    /\ ~last'.ret.awarded
    /\ ~last'.reconciled
    /\ last'.ops = {}
    /\ member_roles' = member_roles
    /\ voice_sessions' = voice_sessions
    /\ \A k \in DOMAIN users' :
         /\ users'[k].permanent_xp = RowBefore(k).permanent_xp
         /\ users'[k].weekly_xp = RowBefore(k).weekly_xp
         /\ users'[k].level = RowBefore(k).level
         /\ users'[k].voice_time = RowBefore(k).voice_time
         /\ users'[k].last_message_xp_timestamp = RowBefore(k).last_message_xp_timestamp
         /\ users'[k].last_voice_xp_timestamp = RowBefore(k).last_voice_xp_timestamp

\* C21: when the store's award write reports failure, the award (called on
\* its own or by the sweep) returns nothing, no XP, timestamp or session tick
\* changes and no reconciliation runs; and the store's award write for a key
\* with no record returns false and creates no record.
C21_FailedWriteLeavesNoTrace ==
    [][ /\ \A g \in GuildIds, u \in UserIds, ch \in VoiceChannels :
             (VoiceWriteAttempted(g, u, ch) /\ AwardVoiceXP(g, u, ch, FailingLimits))
                 => NothingAwarded
        /\ \A session \in voice_sessions :
             (SweepWriteAttempted(session) /\ VoiceTickSession(session, FailingLimits))
                 => NothingAwarded
        /\ \A g \in GuildIds, u \in UserIds, kind \in {"message", "voice"},
              xp_amount \in xp_settings.voice_xp_min..xp_settings.voice_xp_max, db_ok \in BOOLEAN :
             AwardCallOnMissing(g, u, kind, xp_amount, db_ok)
                 => (~last'.ret.awarded /\ users' = users) ]_vars

\* a sweep found a session due, of a member in the channel and past the
\* interval since the last award, and gave nothing
C21_SweepWriteFailed ==
    /\ last.op = "voice_tick"
    /\ last.at = now
    /\ ~last.ret.awarded
    /\ LastKey \in DOMAIN users
    /\ users[LastKey].permanent_xp > 0
    /\ \E session \in SessionsOf(LastKey) :
         /\ session.channel_id = last.channel
         /\ SweepWriteAttempted(session)

(***************************************************************************)
(* XP totals over awards, sweeps and rollovers, stated for SpecRollover.   *)
(***************************************************************************)
\* C22: over message awards, voice awards, sweep passes and weekly rollovers,
\* with XP minima >= 0, a record's total_xp never decreases, its weekly_xp
\* never decreases except by being set to 0 at a rollover, and both are
\* non-negative integers in every state.
C22_XpNeverDecreases ==
    [][ /\ \A k \in DOMAIN users' :
             /\ users'[k].permanent_xp \in Nat
             /\ users'[k].weekly_xp \in Nat
        /\ \A k \in DOMAIN users :
             /\ k \in DOMAIN users'
             /\ users'[k].permanent_xp >= users[k].permanent_xp
             /\ \/ users'[k].weekly_xp >= users[k].weekly_xp
                \/ /\ users'[k].weekly_xp = 0
                   /\ ResetWeeklyCommand(k[1], TRUE) ]_vars

\* after a rollover that archived the member's weekly XP, a sweep awarded
\* again and a message had been awarded
C22_AwardedAfterRollover ==
    /\ weekly_archives # <<>>
    /\ last.op = "voice_tick"
    /\ last.ret.awarded
    /\ users[LastKey].weekly_xp > 0
    /\ users[LastKey].permanent_xp > users[LastKey].weekly_xp
    /\ users[LastKey].last_message_xp_timestamp > 0

(***************************************************************************)
(* The target role during a reconciliation, stated for SpecRoles.          *)
(***************************************************************************)
\* the role a reconciliation that has just run was aiming at
ReconcileTarget ==
    IF last'.op = "award_message_xp"
    THEN get_appropriate_reward_role(last'.ret.new_level)
    ELSE IF <<last'.guild, last'.user>> \in DOMAIN users'
    THEN get_appropriate_reward_role(users'[<<last'.guild, last'.user>>].level)
    ELSE NoRole

\* C27: handle_level_up and sync_user_roles remove every held tier role
\* except the target: when the member already holds the target role, no
\* remove and no add is issued for it, so the member still holds it
\* afterwards whatever the outcomes of the role operations.
C27_TargetRoleLeftAlone ==
    [][ (last'.reconciled /\ last'.op \in {"award_message_xp", "sync", "set_level", "set_xp"}
           /\ ReconcileTarget # NoRole
           /\ ReconcileTarget \in guild_roles
           /\ ReconcileTarget \in member_roles[last'.user]) =>
            /\ \A o \in last'.ops : o.role # ReconcileTarget
            /\ ReconcileTarget \in member_roles'[last'.user] ]_vars

(***************************************************************************)
(* The frame of setweekly, stated for SpecSetWeekly.                       *)
(***************************************************************************)
\* C29: setweekly with amount >= 0 changes only weekly_xp: total_xp, level,
\* timestamps and counters of the record are unchanged, and total_xp remains
\* a non-negative integer.
C29_SetWeeklyFrame ==
    [][ \A g \in GuildIds, u \in UserIds, amount \in 0..MaxStoreRowXp :
          (SetWeeklyCommand(g, u, amount) /\ <<g, u>> \in DOMAIN users) =>
              /\ users' = [users EXCEPT ![<<g, u>>].weekly_xp = amount]
              /\ users'[<<g, u>>].permanent_xp \in Nat ]_vars

(***************************************************************************)
(* Properties of interleaved handlers, stated for SpecAsync.               *)
(***************************************************************************)
AllDone == \A i \in DOMAIN tasks : tasks[i].pc = "done"

\* C23: once two level-up reconciliations of one member have both completed
\* with every role operation succeeding, the member holds at most one role
\* of the tier map, however the two interleaved at their awaits
C23_OneTierRoleAfterBoth ==
    (/\ Len(tasks) >= 2
     /\ AllDone
     /\ \A i \in DOMAIN tasks : AllOk(tasks[i].ops))
        => \A u \in UserIds : Cardinality(get_user_reward_roles(u)) <= 1

\* two message awards of the member persisted inside one cooldown window
DoubleAward ==
    /\ hist.msg_prev # -1
    /\ hist.msg_at - hist.msg_prev < xp_settings.message_cooldown_seconds

\* C25 as stated: a run of concurrent award_message_xp handlers reaches a
\* state where two awards were persisted inside one cooldown window
C25_DoubleAwardReached == <>DoubleAward

\* C25: no interleaving of award_message_xp handlers persists two awards
\* inside one cooldown window: a handler has no await between reading the
\* record and writing the award, so a handler started while another is
\* suspended reads the timestamp that one wrote
C25_NoDoubleAward == ~DoubleAward

\* a second award_message_xp ran inside the cooldown window of a handler
\* still suspended in reconciliation, and returned nothing
C25_RefusedWhileSuspended ==
    /\ \E i \in InFlight : tasks[i].op = "award_message_xp"
    /\ last.op = "award_message_xp"
    /\ last.channel \in message_whitelist
    /\ ~last.ret.awarded
    /\ hist.msg_at # -1
    /\ last.at - hist.msg_at < xp_settings.message_cooldown_seconds

(***************************************************************************)
(* Properties of the sweep interleaved with voice events, stated for       *)
(* SpecSweep, where every voice event is handled by the tracker.           *)
(***************************************************************************)
\* C24: a member who is in a whitelisted voice channel, the tracker having
\* handled the join or move that took them there, has an active session
\* for that channel, whatever a suspended pass does when it resumes
C24_PresentMemberHasSession ==
    \A u \in SweepUsers :
        member_voice[u] \in voice_whitelist =>
            \E row \in voice_sessions :
                row.user_id = u /\ row.channel_id = member_voice[u]

\* C26: after the sweep was cancelled, every voice award that was persisted
\* has its minutes accrued: an award gives at most voice_xp_max XP and adds
\* at least one minute
C26_CancelLeavesNoPartialAward ==
    last.op = "cog_unload" =>
        \A k \in DOMAIN users :
            users[k].permanent_xp <= xp_settings.voice_xp_max * users[k].voice_time

\* C28: the minutes the sweep adds for an award are at most the whole
\* minutes since the session was joined, or 1; also at the first award of
\* a session, whose last tick is still 0
C28_MinutesWithinSession ==
    [][ \A k \in DOMAIN users' :
          users'[k].voice_time > RowBefore(k).voice_time =>
              users'[k].voice_time - RowBefore(k).voice_time
                  <= Max(1, (now - tasks'[1].session.join_time) \div 60) ]_vars

PassStep == scn_log' # scn_log \/ tasks' # tasks

\* what the step wrote to the log of the pass
NewEntries ==
    IF tasks = <<>> THEN Tail(scn_log')
    ELSE SubSeq(scn_log', Len(scn_log) + 1, Len(scn_log'))

\* the rows of its list the step went through without calling the award
RowsPassed ==
    LET before == IF tasks = <<>> THEN voice_sessions
                  ELSE {tasks[1].pending[i] : i \in DOMAIN tasks[1].pending}
        after == IF tasks' = <<>> THEN {}
                 ELSE {tasks'[1].session}
                        \cup {tasks'[1].pending[i] : i \in DOMAIN tasks'[1].pending}
    IN  before \ after

RaisedFor(u) ==
    \E i \in DOMAIN NewEntries :
        NewEntries[i].user = u /\ NewEntries[i].outcome = "raised"

\* every row the step went through whose member has left the guild, whose
\* channel is gone or whose member is not in its channel (and whose database
\* call did not raise) is ended, with nothing awarded to its member
StaleRowsEnded ==
    \A row \in RowsPassed :
        LET k == <<row.guild_id, row.user_id>>
        IN  (StaleSession(row) /\ ~RaisedFor(row.user_id)) =>
                /\ \A stored \in voice_sessions' :
                       <<stored.guild_id, stored.user_id>> # k
                /\ (k \in DOMAIN users') = (k \in DOMAIN users)
                /\ k \in DOMAIN users => users'[k] = users[k]

\* every stored session that is valid (member in the guild, channel there,
\* member in it) is still stored after the step
ValidSessionsKept ==
    \A stored \in voice_sessions :
        ~StaleSession(stored) =>
            \E kept \in voice_sessions' :
                /\ kept.guild_id = stored.guild_id
                /\ kept.user_id = stored.user_id
                /\ kept.channel_id = stored.channel_id

\* C31: a sweep pass ends every session whose user has left the guild,
\* whose channel no longer exists or whose user is not in the session's
\* channel, awarding nothing for it, and deletes no session that is still
\* valid
C31_PassEndsOnlyStaleSessions ==
    [][PassStep => (StaleRowsEnded /\ ValidSessionsKept)]_vars

\* the first half of C31 alone
PassEndsStaleSessions == [][PassStep => StaleRowsEnded]_vars

\* the pass of the log is over
PassOver == tasks = <<>> /\ scn_log # <<>>

\* the members whose rows the pass of the log handled
Handled == {scn_log[i].user : i \in 2..Len(scn_log)}

\* C32: an error raised while one session is processed is confined to that
\* session: when the pass is over, every row of the list it read has been
\* handled (a row after the failing one too: ended if stale, awarded if
\* due), and the next pass can start
C32_ErrorsConfinedToSession ==
    PassOver =>
        /\ Handled = scn_log[1].snapshot
        /\ Len(scn_log) = 1 + Cardinality(scn_log[1].snapshot)
        /\ (\E i \in DOMAIN scn_log : scn_log[i].outcome = "raised") =>
               ENABLED (\E g \in GuildIds :
                          \E active_sessions \in get_active_voice_sessions(g) :
                            StartPass(g, active_sessions, PassLimits))

\* a pass is over in which the first row raised and the second was due and
\* an award was made for it
C32_AwardedAfterError ==
    /\ PassOver
    /\ Len(scn_log) = 3
    /\ scn_log[2].outcome = "raised"
    /\ scn_log[3].outcome = "due"
    /\ <<1, scn_log[3].user>> \in DOMAIN users
    /\ users[<<1, scn_log[3].user>>].permanent_xp > 0

\* a pass is over in which the first row raised and the second, stale, was
\* ended
C32_EndedAfterError ==
    /\ PassOver
    /\ Len(scn_log) = 3
    /\ scn_log[2].outcome = "raised"
    /\ scn_log[3].outcome = "ended"
    /\ \A row \in voice_sessions : row.user_id # scn_log[3].user

(***************************************************************************)
(* Audit records of the reconciliation (xp_manager.py 363-405), stated for *)
(* SpecRoles.  log_role_grant and log_role_removal catch every exception   *)
(* of the mod-log channel themselves and return nothing: the role          *)
(* operations and the award result take no input from them.                *)
(***************************************************************************)
AuditRecord(kind, role) == [kind |-> kind, role |-> role]

\* xp_manager.py 296-297 and 305-306: in handle_level_up log_role_removal
\* follows each remove_roles that did not raise, log_role_grant the add_roles
level_up_audit(ops) ==
    {AuditRecord(o.kind, o.role) : o \in {p \in ops : p.outcome = "ok"}}

\* xp_manager.py 424-434: in sync_user_roles log_role_grant follows the
\* add_roles; nothing follows a remove_roles
sync_audit(ops) ==
    {AuditRecord(o.kind, o.role) :
       o \in {p \in ops : p.kind = "add" /\ p.outcome = "ok"}}

\* the audit calls of a run of a handler
AuditOf(run) ==
    IF run.op \in {"sync", "set_level", "set_xp"} THEN sync_audit(run.ops)
    ELSE level_up_audit(run.ops)

\* C33: every role add and every role remove performed by reconciliation,
\* on the level-up path and on the sync path, has its audit record
C33_EveryRoleOpAudited ==
    last.reconciled =>
        \A o \in last.ops :
            o.outcome = "ok" => AuditRecord(o.kind, o.role) \in AuditOf(last)

\* C33 on the level-up path alone
LevelUpOpsAudited ==
    (last.reconciled /\ last.op \notin {"sync", "set_level", "set_xp"}) =>
        \A o \in last.ops :
            o.outcome = "ok" => AuditRecord(o.kind, o.role) \in AuditOf(last)

(***************************************************************************)
(* The message count, stated for SpecMessages.                             *)
(***************************************************************************)
\* C34: message_count grows by exactly 1 with every successful message
\* award (by 0 when the count itself fails, the XP of the award staying
\* written) and by 0 with every rejected or ignored message
C34_MessageCountFollowsAwards ==
    [][ (last' # last \/ users' # users \/ scn_log' # scn_log) =>
          (last'.op \in {"on_message", "award_message_xp"} =>
             LET k == <<last'.guild, last'.user>>
                 before == RowBefore(k)
             IN  IF last'.ret.awarded
                 THEN /\ users'[k].permanent_xp = before.permanent_xp + last'.ret.xp_awarded
                      /\ users'[k].weekly_xp = before.weekly_xp + last'.ret.xp_awarded
                      /\ users'[k].message_count =
                            before.message_count
                              + (IF "count_error" \in {scn_log'[i] : i \in DOMAIN scn_log'}
                                 THEN 0 ELSE 1)
                 ELSE k \in DOMAIN users' =>
                        /\ users'[k].message_count = before.message_count
                        /\ users'[k].permanent_xp = before.permanent_xp) ]_vars

\* a second award was counted: the record has two messages and their XP
C34_TwoMessagesCounted ==
    /\ last.op = "award_message_xp"
    /\ last.ret.awarded
    /\ scn_log = <<"awarded">>
    /\ users[<<last.guild, last.user>>].message_count = 2

\* an award whose count failed: the XP is there, the count is not
C34_CountFailedAwardKept ==
    /\ last.op = "award_message_xp"
    /\ last.ret.awarded
    /\ scn_log = <<"awarded", "count_error">>
    /\ users[<<last.guild, last.user>>].message_count = 0
    /\ users[<<last.guild, last.user>>].permanent_xp > 0

(***************************************************************************)
(* What a rejected attempt and an award of the other source leave alone,   *)
(* stated for Spec.                                                        *)
(***************************************************************************)
\* C35: the cooldown is measured from the last award: a message attempt
\* inside the cooldown returns nothing and leaves permanent_xp, weekly_xp
\* and last_message_xp_timestamp as they were; a message award or attempt
\* leaves last_voice_xp_timestamp as it was, a voice award or attempt
\* last_message_xp_timestamp
C35_CooldownFromLastAward ==
    [][ (last' # last \/ users' # users) =>
          LET k == <<last'.guild, last'.user>>
              before == RowBefore(k)
              stored == k \in DOMAIN users'
          IN  /\ (/\ last'.op = "award_message_xp"
                  /\ MessageEligible(last'.user, last'.channel)
                  /\ now - before.last_message_xp_timestamp
                        < xp_settings.message_cooldown_seconds) =>
                    /\ ~last'.ret.awarded
                    /\ stored
                    /\ users'[k].permanent_xp = before.permanent_xp
                    /\ users'[k].weekly_xp = before.weekly_xp
                    /\ users'[k].last_message_xp_timestamp
                          = before.last_message_xp_timestamp
              /\ (last'.op = "award_message_xp" /\ stored) =>
                    users'[k].last_voice_xp_timestamp = before.last_voice_xp_timestamp
              /\ (last'.op = "award_voice_xp" /\ stored) =>
                    users'[k].last_message_xp_timestamp
                      = before.last_message_xp_timestamp ]_vars

\* a message attempt rejected inside the cooldown of a member who has had a
\* message award and a voice award
C35_RejectedBetweenAwards ==
    /\ last.op = "award_message_xp"
    /\ ~last.ret.awarded
    /\ MessageEligible(last.user, last.channel)
    /\ <<last.guild, last.user>> \in DOMAIN users
    /\ users[<<last.guild, last.user>>].last_message_xp_timestamp > 0
    /\ users[<<last.guild, last.user>>].last_voice_xp_timestamp > 0
    /\ last.at - users[<<last.guild, last.user>>].last_message_xp_timestamp
          < xp_settings.message_cooldown_seconds

(***************************************************************************)
(* The session after a handled voice event, stated for SpecEvents (every   *)
(* event handled, one handler at a time, the whitelist fixed).             *)
(***************************************************************************)
\* C36: after each handled voice event the member has an active session if
\* and only if they are in a whitelisted voice channel, and then exactly one,
\* for the channel they are in
C36_SessionFollowsHandledEvent ==
    last.op \in {"voice_join", "voice_leave", "voice_move"} =>
        LET stored == SessionsOf(<<last.guild, last.user>>)
        IN  /\ (stored # {}) = (member_voice[last.user] \in voice_whitelist)
            /\ Cardinality(stored) <= 1
            /\ \A row \in stored : row.channel_id = member_voice[last.user]

\* a handled move out of the whitelist of a member who had a session
C36_MovedOutOfWhitelist ==
    /\ last.op = "voice_move"
    /\ last.arg = 1
    /\ member_voice[last.user] # 0
    /\ member_voice[last.user] \notin voice_whitelist
    /\ SessionsOf(<<last.guild, last.user>>) = {}

(***************************************************************************)
(* The record after setlevel and setxp, stated for SpecSetLevel.           *)
(***************************************************************************)
\* C37: after setlevel L, L >= 1 (above the last level of the table too),
\* the record has level L and permanent_xp calculate_xp_for_level(L), and
\* calculate_level of the stored XP is L; after setxp the stored level is
\* calculate_level of the stored XP
C37_SetLevelConsistentWithCurve ==
    LET k == <<last.guild, last.user>>
    IN  /\ (last.op = "set_level" /\ last.reconciled) =>
              /\ users[k].level = last.arg
              /\ users[k].permanent_xp = calculate_xp_for_level(last.arg)
              /\ calculate_level(users[k].permanent_xp) = last.arg
        /\ (last.op = "set_xp" /\ last.reconciled) =>
              users[k].level = calculate_level(users[k].permanent_xp)

\* what setlevel and setxp store, without the way back through the curve
SetCommandsStore ==
    LET k == <<last.guild, last.user>>
    IN  /\ (last.op = "set_level" /\ last.reconciled) =>
              /\ users[k].level = last.arg
              /\ users[k].permanent_xp = calculate_xp_for_level(last.arg)
        /\ (last.op = "set_xp" /\ last.reconciled) =>
              users[k].level = calculate_level(users[k].permanent_xp)

(***************************************************************************)
(* The table above the highest anchor, stated for SpecSlope.               *)
(***************************************************************************)
\* C38: from the highest anchor level to 99 every step of the table equals
\* the last step of the interpolation, threshold[highest anchor level] -
\* threshold[highest anchor level - 1], and so do the steps of
\* calculate_xp_for_level past the table
C38_SlopeOfLastStep ==
    fn_out # <<>> =>
        /\ \A l \in DOMAIN fn_out[1].steps : fn_out[1].steps[l] = fn_out[1].last_step
        /\ \A l \in DOMAIN fn_out[1].beyond : fn_out[1].beyond[l] = fn_out[1].last_step

\* the XP of the final anchor segment over its levels, truncated: the
\* segment runs from the anchor before the highest one in level order (from
\* level 1 with 0 XP when there is one anchor)
SegmentDelta ==
    LET anchors == SortedAnchors(level_formula)
        n == Len(anchors)
        prev == IF n >= 2 THEN anchors[n - 1] ELSE Anchor(1, 0)
        span_xp == anchors[n].xp - prev.xp
        span_levels == IF anchors[n].level > prev.level
                       THEN anchors[n].level - prev.level ELSE 1
    IN  IF span_xp >= 0 THEN span_xp \div span_levels
        ELSE -((-span_xp) \div span_levels)

\* what the table does: from the highest anchor level to 99 every step is
\* the XP of the final anchor segment divided by its levels, truncated to an
\* integer, and calculate_xp_for_level past the table keeps the step of the
\* table's last two levels
SlopeOfSegmentAverage ==
    fn_out # <<>> =>
        /\ \A l \in DOMAIN fn_out[1].steps : fn_out[1].steps[l] = SegmentDelta
        /\ \A l \in DOMAIN fn_out[1].beyond : fn_out[1].beyond[l] = fn_out[1].steps[99]

(***************************************************************************)
(* The curve at its anchors, stated for SpecAnchors.                       *)
(***************************************************************************)
\* every valid anchor is read back: its level costs its XP, and its XP
\* gives at least its level; level 1 costs 0
AnchorsReproduced ==
    /\ fn_out[1].first = 0
    /\ \A i \in DOMAIN fn_out[1].anchors :
           /\ fn_out[1].xp_at[i] = fn_out[1].anchors[i].xp
           /\ fn_out[1].level_at[i] >= fn_out[1].anchors[i].level

WellFormedAnchors ==
    \A i, j \in DOMAIN fn_out[1].anchors :
        /\ (i # j) => fn_out[1].anchors[i].level # fn_out[1].anchors[j].level
        /\ (fn_out[1].anchors[i].level < fn_out[1].anchors[j].level) =>
               fn_out[1].anchors[i].xp <= fn_out[1].anchors[j].xp

C40_FallbackCurveUsed ==
    fn_out # <<>> =>
        LET builtin == <<0, 100, 300, 700, 1500>>
        IN  /\ \A l \in 1..5 : fn_out[1].xps[l] = builtin[l]
            /\ \A level \in DOMAIN fn_out[1].xps : fn_out[1].xps[level] >= 0
            /\ \A xp \in DOMAIN fn_out[1].levels :
                   /\ fn_out[1].levels[xp] \in 1..5
                   /\ \A l \in 2..5 :
                          (xp >= builtin[l]) = (fn_out[1].levels[xp] >= l)

\* a list of anchors none of which is valid, read at the top of the
\* built-in curve
C40_InvalidAnchorsOnly ==
    /\ fn_out # <<>>
    /\ level_formula.anchors # <<>>
    /\ fn_out[1].levels[1500] = 5
    /\ fn_out[1].levels[-1] = 1

====
